---------------------------- MODULE Spec2Model ----------------------------
(***************************************************************************)
(* A model of the blast proof-search engine of library/blast/blast.cpp:    *)
(* the iterative-deepening driver (blastenv::search, search_upto,          *)
(* next_action, resolve), the internalizer (to_blast_expr_fn, to_state)    *)
(* and the type-context facade (blastenv::tctx, scope_assignment).         *)
(*                                                                         *)
(* Expressions are tuples whose first component is the kind:               *)
(*   <<"href", i>>  <<"mref", i>>  <<"local", n>>  <<"tmp", n>>            *)
(*   <<"const", n>> <<"var", i>>   <<"app", f, a>> <<"pi", dom, body>>     *)
(*   <<"lam", dom, body>>          <<"meta", m, args>>                     *)
(* <<"meta", m, args>> is the application of the external metavariable m  *)
(* to the sequence args (the spine get_app_args returns).                  *)
(***************************************************************************)
EXTENDS Integers, Sequences, FiniteSets, TLC

VARIABLES
    (* blastenv: options *)
    m_max_depth, m_init_depth, m_inc_depth,
    (* blastenv: the current State and the choice points *)
    m_curr_state, m_choice_points,
    (* blastenv::search / search_upto: position, locals and result *)
    pc, d, s, result, depths_tried,
    (* blastenv::operator(): the goal given, the error that escaped *)
    goal, error,
    (* blastenv: map from external metavariables to (application, mref) *)
    m_mvar2meta_mref,
    (* to_state: the local State s as it was at the return or the throw,
       and the record of the visit_meta_app calls made *)
    to_state_s, visit_log,
    (* what comparing mlocal_name(prev) of a non-local prev does in this
       build: "assert", "equals" or "differs" *)
    nonlocal_name_cmp,
    (* blastenv::tctx: the stack of assignment snapshots *)
    m_stack,
    (* the live scope_assignment objects, innermost last *)
    guards,
    (* the States at the pushes of the snapshots of m_stack, and the last
       call made on the type-context *)
    pushed, last_call,
    (* blastenv::operator(): the term returned to the caller *)
    run_result,
    (* g_blastenv of every thread (0 is nullptr), the live scope_blastenv
       objects of every thread, innermost last, and the number of engines
       constructed so far *)
    g_blastenv, scopes, num_engines,
    (* the index counters of every thread, by kind *)
    next_idx,
    (* the thread that constructed each engine, the indices handed out and
       the last free function called *)
    owner, handed, last_dispatch,
    (* the last call of next_action: the State it was invoked on, the depth
       bound of the bounded search that made it, and what it returned *)
    last_action,
    (* the scratch type-contexts created so far, the free-list
       m_tmp_ctx_pool, the engine's own m_tmp_ctx (0 before construction),
       m_ctx of every blast_tmp_type_context (0 while it is not alive) and
       the last acquisition or release *)
    tmp_ctxs, m_tmp_ctx_pool, m_tmp_ctx, tmp_guards, last_tmp

optionVars == <<m_max_depth, m_init_depth, m_inc_depth>>
searchVars == <<pc, d, s, result, depths_tried>>
internVars == <<goal, error, m_mvar2meta_mref, to_state_s, visit_log,
                nonlocal_name_cmp>>
tctxVars == <<m_stack, guards, pushed, last_call>>
poolVars == <<tmp_ctxs, m_tmp_ctx_pool, m_tmp_ctx, tmp_guards, last_tmp>>
engineVars == <<run_result, g_blastenv, scopes, num_engines, next_idx, owner,
                handed, last_dispatch, last_action, poolVars>>
vars == <<optionVars, m_curr_state, m_choice_points, searchVars, internVars,
          tctxVars, engineVars>>

(***************************************************************************)
(* Bounds of the model.                                                    *)
(***************************************************************************)
\* width in bits of the machine's unsigned in the model (32 in the build)
WordBits == 8
\* number of atomic propositions the search goals are built from
NumAtoms == 2

Modulus == 2 ^ WordBits
Unsigned == 0 .. (Modulus - 1)

(***************************************************************************)
(* Expressions.                                                            *)
(***************************************************************************)
NoneExpr == <<"none">>
mk_href(i) == <<"href", i>>
mk_mref(i) == <<"mref", i>>
mk_constant(n) == <<"const", n>>
mk_app(f, a) == <<"app", f, a>>
mk_pi(dom, body) == <<"pi", dom, body>>
mk_lambda(dom, body) == <<"lam", dom, body>>
is_href(e) == e[1] = "href"
is_mref(e) == e[1] = "mref"
is_pi(e) == e[1] = "pi"

(***************************************************************************)
(* State (library/blast/state.h, described by the specification):          *)
(* hypotheses, metavariable declarations, the two assignment maps, the     *)
(* target, the proof-step stack and the proof depth.                       *)
(***************************************************************************)
EmptyState ==
    [ hyps          |-> <<>>,   \* hyps[i]: [type, active, local, value]
      mdecls        |-> <<>>,   \* mdecls[i]: [ctx] admissible context of mref i
      uassignment   |-> <<>>,   \* appended pairs <<uref, level>>
      eassignment   |-> <<>>,   \* appended pairs <<mref, expr>>
      target        |-> NoneExpr,
      proof_steps   |-> <<>>,   \* top of the stack is the last element
      proof_depth   |-> 0 ]

\* no call has been made on the type-context
NoCall ==
    [op |-> "none", m |-> 0, locals |-> {}, v |-> NoneExpr, ok |-> TRUE,
     before |-> EmptyState, at_push |-> EmptyState, depth |-> 0]
TctxIdle ==
    /\ m_stack = <<>>
    /\ guards = <<>>
    /\ pushed = <<>>
    /\ last_call = NoCall

\* number of threads that run engines
NumThreads == 2
\* number of engines constructed in a behaviour of the model
MaxEngines == 3
\* number of indices handed out in a behaviour of the model
MaxFresh == 3

Threads == 1 .. NumThreads
IndexKinds == {"href", "mref", "uref"}
NoDispatch == [thread |-> 0, engine |-> 0, innermost |-> 0]
NoActionCall ==
    [status |-> "none", on |-> EmptyState, state |-> EmptyState,
     pr |-> NoneExpr, bound |-> 0]
\* number of blast_tmp_type_context objects alive at a time
MaxGuards == 3
TmpGuards == 1 .. MaxGuards
NoTmpCall == [op |-> "none", ctx |-> 0, created |-> FALSE, pool |-> <<>>]

\* operator() has not returned, no engine is installed on any thread
EngineIdle ==
    /\ run_result = NoneExpr
    /\ g_blastenv = [t \in Threads |-> 0]
    /\ scopes = [t \in Threads |-> <<>>]
    /\ num_engines = 0
    /\ next_idx = [t \in Threads |-> [k \in IndexKinds |-> 0]]
    /\ owner = <<>>
    /\ handed = <<>>
    /\ last_dispatch = NoDispatch
    /\ last_action = NoActionCall
    /\ tmp_ctxs = <<>>
    /\ m_tmp_ctx_pool = <<>>
    /\ m_tmp_ctx = 0
    /\ tmp_guards = [g \in TmpGuards |-> 0]
    /\ last_tmp = NoTmpCall

mk_hypothesis_in(st, type, local) ==
    [st EXCEPT !.hyps = Append(@, [type |-> type, active |-> FALSE,
                                   local |-> local, value |-> NoneExpr])]

set_target(st, e) == [st EXCEPT !.target = e]

has_proof_steps(st) == st.proof_steps # <<>>
top_proof_step(st) == st.proof_steps[Len(st.proof_steps)]
pop_proof_step(st) ==
    [st EXCEPT !.proof_steps = SubSeq(@, 1, Len(@) - 1),
               !.proof_depth = @ - 1]
push_proof_step(st, step) ==
    [st EXCEPT !.proof_steps = Append(@, step),
               !.proof_depth = @ + 1]
get_proof_depth(st) == st.proof_depth

\* the first inactive hypothesis in insertion order, 0 when there is none
NextInactive(st) ==
    LET I == {i \in 1 .. Len(st.hyps) : ~st.hyps[i].active}
    IN IF I = {} THEN 0 ELSE CHOOSE i \in I : \A j \in I : i <= j

state_activate_hypothesis(st) ==
    LET i == NextInactive(st)
    IN [st EXCEPT !.hyps[i].active = TRUE]

(***************************************************************************)
(* The two primitive actions (library/blast/intros.h, assumption.h).       *)
(***************************************************************************)
\* intros_action: one binder of a pi target becomes a fresh hypothesis and a
\* proof step that re-abstracts the proof over it is pushed
intros_applies(st) == is_pi(st.target)
intros_action(st) ==
    LET st1 == mk_hypothesis_in(st, st.target[2], 0)
        h   == Len(st1.hyps)
    IN push_proof_step(set_target(st1, st.target[3]),
                       [kind |-> "intros", href |-> h])

\* assumption_action: the first active hypothesis whose type is the target
AssumptionCandidates(st) ==
    {i \in 1 .. Len(st.hyps) : st.hyps[i].active /\ st.hyps[i].type = st.target}
assumption_action(st) ==
    LET C == AssumptionCandidates(st)
    IN IF C = {} THEN NoneExpr
       ELSE mk_href(CHOOSE i \in C : \A j \in C : i <= j)

\* the href h of e becomes the bound variable of the binder k levels up
RECURSIVE abstract_href(_, _, _)
abstract_href(e, h, k) ==
    IF e = mk_href(h) THEN <<"var", k>>
    ELSE IF e[1] \in {"lam", "pi"}
    THEN <<e[1], abstract_href(e[2], h, k), abstract_href(e[3], h, k + 1)>>
    ELSE IF e[1] = "app"
    THEN mk_app(abstract_href(e[2], h, k), abstract_href(e[3], h, k))
    ELSE e

\* proof_step::resolve: the intros step always accepts, re-abstracting; a
\* step that waits for more subgoals answers incomplete
proof_step_resolve(step, st, pr) ==
    IF step.kind = "intros"
    THEN mk_lambda(st.hyps[step.href].type, abstract_href(pr, step.href, 0))
    ELSE NoneExpr

(***************************************************************************)
(* blastenv: the search driver.                                            *)
(***************************************************************************)
\* a backtrack that discards every choice point
next_choice_point_stack_clears(cps) ==
    <<>>

\* blastenv::next_choice_point, as the pair it leaves behind
next_choice_point_ok(cps) == cps # <<>>
next_choice_point_state(st, cps) ==
    IF cps = <<>> THEN st ELSE cps[Len(cps)]
next_choice_point_stack(cps) ==
    IF cps = <<>> THEN cps ELSE SubSeq(cps, 1, Len(cps) - 1)

\* blastenv::activate_hypothesis
activate_hypothesis_applies(st) == NextInactive(st) # 0

\* a next_action that tries assumption before hypothesis activation
next_action_assumption_first(st) ==
    IF intros_applies(st)
    THEN [status |-> "Continue", state |-> intros_action(st), pr |-> NoneExpr]
    ELSE IF assumption_action(st) # NoneExpr
    THEN [status |-> "ClosedBranch", state |-> st, pr |-> assumption_action(st)]
    ELSE IF activate_hypothesis_applies(st)
    THEN [status |-> "Continue", state |-> state_activate_hypothesis(st),
          pr |-> NoneExpr]
    ELSE [status |-> "NoAction", state |-> st, pr |-> NoneExpr]

\* blastenv::next_action: [status, state, pr]
next_action(st) ==
    IF intros_applies(st)
    THEN [status |-> "Continue", state |-> intros_action(st), pr |-> NoneExpr]
    ELSE IF activate_hypothesis_applies(st)
    THEN [status |-> "Continue", state |-> state_activate_hypothesis(st),
          pr |-> NoneExpr]
    ELSE IF assumption_action(st) # NoneExpr
    THEN [status |-> "ClosedBranch", state |-> st, pr |-> assumption_action(st)]
    ELSE [status |-> "NoAction", state |-> st, pr |-> NoneExpr]

\* a resolve that returns the proof of the branch and pops no proof step
resolve_without_steps(st, pr) == [state |-> st, pr |-> pr]

\* a resolve that asks the top step only and returns what it answers
resolve_top_step_only(st, pr) ==
    IF has_proof_steps(st)
    THEN [state |-> pop_proof_step(st),
          pr |-> proof_step_resolve(top_proof_step(st), st, pr)]
    ELSE [state |-> st, pr |-> pr]

\* a resolve that also pops the step that does not accept
RECURSIVE resolve_dropping_refused(_, _)
resolve_dropping_refused(st, pr) ==
    IF has_proof_steps(st)
    THEN LET step   == top_proof_step(st)
             new_pr == proof_step_resolve(step, st, pr)
         IN IF new_pr # NoneExpr
            THEN resolve_dropping_refused(pop_proof_step(st), new_pr)
            ELSE [state |-> pop_proof_step(st), pr |-> NoneExpr]
    ELSE [state |-> st, pr |-> pr]

\* blastenv::resolve: [state, pr]; pr = NoneExpr when a step does not accept
RECURSIVE resolve(_, _)
resolve(st, pr) ==
    IF has_proof_steps(st)
    THEN LET step   == top_proof_step(st)
             new_pr == proof_step_resolve(step, st, pr)
         IN IF new_pr # NoneExpr
            THEN resolve(pop_proof_step(st), new_pr)
            ELSE [state |-> st, pr |-> NoneExpr]
    ELSE [state |-> st, pr |-> pr]

\* search(): state s = m_curr_state; unsigned d = m_init_depth;
Search_Begin ==
    /\ pc = "search"
    /\ s' = m_curr_state
    /\ d' = m_init_depth
    /\ pc' = "while"
    /\ UNCHANGED <<optionVars, engineVars, m_curr_state, m_choice_points, result,
                   depths_tried, internVars, tctxVars>>

\* while (d <= m_max_depth) { if (auto r = search_upto(d)) ... } return none
Search_While ==
    /\ pc = "while"
    /\ IF d <= m_max_depth
       THEN /\ pc' = "upto"
            /\ depths_tried' = depths_tried \cup {d}
            /\ UNCHANGED result
       ELSE /\ pc' = "done"
            /\ result' = NoneExpr
            /\ UNCHANGED depths_tried
    /\ UNCHANGED <<optionVars, engineVars, m_curr_state, m_choice_points, d, s,
                   internVars, tctxVars>>

\* a depth test that never fires
max_depth_never_reached(st, depth) ==
    FALSE

\* a depth test that fires below the bound
max_depth_reached_below(st, depth) ==
    st.proof_depth < depth

\* if (m_curr_state.get_proof_depth() > depth): maximum depth reached
max_depth_reached(st, depth) ==
    get_proof_depth(st) > depth

\* the record last_action keeps of the call next_action() made on st0
ActionCall(st0, a, depth) ==
    [status |-> a.status, on |-> st0, state |-> a.state, pr |-> a.pr,
     bound |-> depth]

\* one iteration of the loop of search_upto(d)
SearchUpto_Step ==
    /\ pc = "upto"
    /\ UNCHANGED poolVars
    /\ LET over == max_depth_reached(m_curr_state, d)
       IN IF over /\ ~next_choice_point_ok(m_choice_points)
          THEN \* maximum depth reached and no choice point: return none
               /\ pc' = "failed"
               /\ UNCHANGED <<m_curr_state, m_choice_points, result, last_action>>
          ELSE LET st0  == IF over
                           THEN next_choice_point_state(m_curr_state, m_choice_points)
                           ELSE m_curr_state
                   cps0 == IF over
                           THEN next_choice_point_stack(m_choice_points)
                           ELSE m_choice_points
                   a    == next_action(st0)
               IN /\ last_action' = ActionCall(st0, a, d)
                  /\ CASE a.status = "NoAction" ->
                         IF next_choice_point_ok(cps0)
                         THEN /\ m_curr_state' = next_choice_point_state(a.state, cps0)
                              /\ m_choice_points' = next_choice_point_stack(cps0)
                              /\ UNCHANGED <<pc, result>>
                         ELSE /\ pc' = "failed"
                              /\ m_curr_state' = a.state
                              /\ m_choice_points' = cps0
                              /\ UNCHANGED result
                    [] a.status = "ClosedBranch" ->
                         LET r == resolve(a.state, a.pr)
                         IN /\ m_curr_state' = r.state
                            /\ m_choice_points' = cps0
                            /\ IF r.pr # NoneExpr
                               THEN pc' = "done" /\ result' = r.pr
                               ELSE UNCHANGED <<pc, result>>
                    [] a.status = "Continue" ->
                         /\ m_curr_state' = a.state
                         /\ m_choice_points' = cps0
                         /\ UNCHANGED <<pc, result>>
    /\ UNCHANGED <<optionVars, run_result, g_blastenv, scopes, num_engines,
                   next_idx, owner, handed, last_dispatch, d, s, depths_tried,
                   internVars, tctxVars>>

\* search_upto(depth) as a function of the State and the choice points it is
\* started with: [state, cps, pr], the members when it returns and its result
RECURSIVE search_upto(_, _, _)
search_upto(st, cps, depth) ==
    IF max_depth_reached(st, depth) /\ ~next_choice_point_ok(cps)
    THEN [state |-> st, cps |-> cps, pr |-> NoneExpr]
    ELSE LET over == max_depth_reached(st, depth)
             st0  == IF over THEN next_choice_point_state(st, cps) ELSE st
             cps0 == IF over THEN next_choice_point_stack(cps) ELSE cps
             a    == next_action(st0)
         IN CASE a.status = "NoAction" ->
                   IF next_choice_point_ok(cps0)
                   THEN search_upto(next_choice_point_state(a.state, cps0),
                                    next_choice_point_stack(cps0), depth)
                   ELSE [state |-> a.state, cps |-> cps0, pr |-> NoneExpr]
              [] a.status = "ClosedBranch" ->
                   LET r == resolve(a.state, a.pr)
                   IN IF r.pr # NoneExpr
                      THEN [state |-> r.state, cps |-> cps0, pr |-> r.pr]
                      ELSE search_upto(r.state, cps0, depth)
              [] a.status = "Continue" ->
                   search_upto(a.state, cps0, depth)

\* an advance to the next depth that keeps the State of the failed search
Search_Advance_without_reset ==
    /\ pc = "failed"
    /\ d' = (d + m_inc_depth) % Modulus
    /\ pc' = "while"
    /\ UNCHANGED <<optionVars, engineVars, m_curr_state, m_choice_points, s,
                   result, depths_tried, internVars, tctxVars>>

\* d += m_inc_depth; m_curr_state = s; m_choice_points.clear();
Search_Advance ==
    /\ pc = "failed"
    /\ d' = (d + m_inc_depth) % Modulus
    /\ m_curr_state' = s
    /\ m_choice_points' = <<>>
    /\ pc' = "while"
    /\ UNCHANGED <<optionVars, engineVars, s, result, depths_tried, internVars, tctxVars>>

(***************************************************************************)
(* blastenv::to_blast_expr_fn: the internalizer.  The visitor threads vs,  *)
(* the data it reads and writes: st (the State s of to_state), the two     *)
(* maps m_mvar2meta_mref and m_local2href, err (the blast_exception        *)
(* thrown, "" while none is) and log (the visit_meta_app calls made).      *)
(***************************************************************************)
ExtLocals == {1, 2, 3}
ExtMvars == {1, 2}
NoMetaMref == [meta |-> NoneExpr, mref |-> 0]

mk_local(n) == <<"local", n>>
mk_var(i) == <<"var", i>>
mk_meta(m, args) == <<"meta", m, args>>
is_local(e) == e[1] = "local"
is_meta(e) == e[1] = "meta"
mlocal_name(e) == e[2]

RECURSIVE has_loose_bvar(_, _)
has_loose_bvar(e, k) ==
    CASE e[1] = "var" -> e[2] >= k
      [] e[1] \in {"pi", "lam"} ->
            has_loose_bvar(e[2], k) \/ has_loose_bvar(e[3], k + 1)
      [] e[1] = "app" -> has_loose_bvar(e[2], k) \/ has_loose_bvar(e[3], k)
      [] e[1] = "meta" -> \E i \in 1 .. Len(e[3]) : has_loose_bvar(e[3][i], k)
      [] OTHER -> FALSE
closed(e) == ~has_loose_bvar(e, 0)

\* state::mk_metavar(ctx, type): the new mref is the last declaration
mk_metavar_in(st, ctx, type) ==
    [st EXCEPT !.mdecls = Append(@, [ctx |-> ctx, type |-> type])]

\* the type m_tc.infer gives a metavariable application: a closed constant
infer_meta_type(e) == mk_constant(0)

\* normalize(*norm_tc, e): the goals of the model are in normal form
normalize(e) == e

throw_unsupported_metavar_occ(vs) == [vs EXCEPT !.err = "unsupported"]
throw_ill_formed(vs) == [vs EXCEPT !.err = "ill_formed"]

\* the record of a visit_meta_app call: the application, whether it is the
\* first occurrence of its metavariable, what the call did with it, and the
\* local constants m_local2href mapped at the call
LogMeta(vs, e, first, outcome) ==
    [vs EXCEPT !.log = Append(@,
        [e |-> e, first |-> first, outcome |-> outcome,
         mapped |-> {n \in ExtLocals : vs.local2href[n] # 0}])]

\* std::all_of(args.begin(), args.begin() + i, mlocal_name(prev) != mlocal_name(l)),
\* in order: "distinct" when it holds, "processed" when a name is equal.
\* mlocal_name of a prev that is no local constant is not defined:
\* cmp says what the build makes of it.
RECURSIVE prev_names_differ(_, _, _, _)
prev_names_differ(args, j, i, cmp) ==
    IF j >= i THEN "distinct"
    ELSE IF is_local(args[j])
    THEN IF mlocal_name(args[j]) = mlocal_name(args[i])
         THEN "processed"
         ELSE prev_names_differ(args, j + 1, i, cmp)
    ELSE CASE cmp = "assert" -> "assert"
           [] cmp = "equals" -> "processed"
           [] OTHER -> prev_names_differ(args, j + 1, i, cmp)

\* a loop that rejects the closed arguments that are no local constants
prefix_arg_rejecting(args, i, vs, cmp) ==
    IF ~closed(args[i]) THEN "break"
    ELSE IF ~is_local(args[i]) THEN "unsupported"
    ELSE IF vs.local2href[mlocal_name(args[i])] = 0 THEN "unsupported"
    ELSE "push_back"

\* what the loop that finds the closed prefix does with args[i]
prefix_arg(args, i, vs, cmp) ==
    IF ~closed(args[i]) THEN "break"
    ELSE IF ~is_local(args[i]) THEN "continue"
    ELSE LET p == prev_names_differ(args, 1, i, cmp)
         IN IF p = "processed" THEN "continue"
            ELSE IF p = "assert" THEN "assert"
            ELSE IF vs.local2href[mlocal_name(args[i])] = 0 THEN "unsupported"
            ELSE "push_back"

\* for (; i < args.size(); i++) { ... ctx.push_back(href_index(*href)); }
RECURSIVE find_prefix(_, _, _, _, _)
find_prefix(args, i, ctx, vs, cmp) ==
    IF i > Len(args)
    THEN [prefix_sz |-> Len(args), ctx |-> ctx, err |-> ""]
    ELSE LET o == prefix_arg(args, i, vs, cmp)
         IN CASE o = "break" -> [prefix_sz |-> i - 1, ctx |-> ctx, err |-> ""]
              [] o = "continue" -> find_prefix(args, i + 1, ctx, vs, cmp)
              [] o = "push_back" ->
                    find_prefix(args, i + 1,
                                ctx \cup {vs.local2href[mlocal_name(args[i])]},
                                vs, cmp)
              [] OTHER -> [prefix_sz |-> i - 1, ctx |-> ctx, err |-> o]

\* a comparison that accepts a shorter argument list
matches_decl_any_length(decl_args, args) ==
    \A i \in 1 .. Len(decl_args) :
        i <= Len(args) => decl_args[i] = args[i]

\* the check of a later occurrence against the recorded application
matches_decl(decl_args, args) ==
    /\ Len(decl_args) <= Len(args)
    /\ \A i \in 1 .. Len(decl_args) :
          IF is_local(decl_args[i])
          THEN is_local(args[i]) /\ mlocal_name(args[i]) = mlocal_name(decl_args[i])
          ELSE decl_args[i] = args[i]

\* The(S) is the element of the singleton S.  The({F(r) : r \in {e}}) is
\* LET r == e IN F(r) with e evaluated once.
The(S) == CHOOSE x \in S : TRUE

\* a visit_local that lets an unknown local constant through
visit_local_lenient(e, vs) ==
    IF vs.local2href[mlocal_name(e)] # 0
    THEN [vs |-> vs, e |-> mk_href(vs.local2href[mlocal_name(e)])]
    ELSE [vs |-> vs, e |-> e]

\* to_blast_expr_fn::visit_local
visit_local(e, vs) ==
    IF vs.local2href[mlocal_name(e)] # 0
    THEN [vs |-> vs, e |-> mk_href(vs.local2href[mlocal_name(e)])]
    ELSE [vs |-> throw_ill_formed(vs), e |-> NoneExpr]

RECURSIVE visit(_, _, _)
RECURSIVE mk_mref_app(_, _, _, _, _)
RECURSIVE visit_meta_app(_, _, _)

\* mk_mref_app(mref, nargs, args): f applied to the visited args[i ..]
mk_mref_app(f, args, i, vs, cmp) ==
    IF i > Len(args) \/ vs.err # ""
    THEN [vs |-> vs, e |-> f]
    ELSE The({mk_mref_app(mk_app(f, r.e), args, i + 1, r.vs, cmp) :
                 r \in {visit(args[i], vs, cmp)}})

visit_meta_app(e, vs, cmp) ==
    LET mvar == e[2]
        args == e[3]
        meta_mref == vs.mvar2meta_mref[mvar]
    IN IF meta_mref.mref # 0
       THEN LET decl_args == meta_mref.meta[3]
            IN IF matches_decl(decl_args, args)
               THEN mk_mref_app(mk_mref(meta_mref.mref), args,
                                Len(decl_args) + 1,
                                LogMeta(vs, e, FALSE, "matched"), cmp)
               ELSE [vs |-> throw_unsupported_metavar_occ(
                                LogMeta(vs, e, FALSE, "unsupported")),
                     e |-> NoneExpr]
       ELSE The({
            IF p.err = "unsupported"
            THEN [vs |-> throw_unsupported_metavar_occ(
                             LogMeta(vs, e, TRUE, "unsupported")),
                  e |-> NoneExpr]
            ELSE IF p.err # ""
            THEN [vs |-> [LogMeta(vs, e, TRUE, p.err) EXCEPT !.err = p.err],
                  e |-> NoneExpr]
            ELSE The({
                 LET st1  == mk_metavar_in(ty.vs.st, p.ctx, ty.e)
                     mref == Len(ty.vs.st.mdecls) + 1
                     vs1  == [ty.vs EXCEPT
                                !.st = st1,
                                !.mvar2meta_mref[mvar] =
                                    [meta |-> e, mref |-> mref]]
                 IN mk_mref_app(mk_mref(mref), args, p.prefix_sz + 1,
                                LogMeta(vs1, e, TRUE, "allocated"), cmp) :
                 ty \in {visit(infer_meta_type(e), vs, cmp)}}) :
            p \in {find_prefix(args, 1, {}, vs, cmp)}})

\* replace_visitor::visit with the overrides of to_blast_expr_fn
visit(e, vs, cmp) ==
    IF vs.err # "" THEN [vs |-> vs, e |-> NoneExpr]
    ELSE CASE is_local(e) -> visit_local(e, vs)
           [] is_meta(e) -> visit_meta_app(e, vs, cmp)
           [] e[1] = "app" ->
                 \* visit_app
                 The({The({[vs |-> a.vs, e |-> mk_app(f.e, a.e)] :
                           a \in {visit(e[3], f.vs, cmp)}}) :
                      f \in {visit(e[2], vs, cmp)}})
           [] e[1] \in {"pi", "lam"} ->
                 \* visit_pi, visit_lambda
                 The({The({[vs |-> body.vs, e |-> <<e[1], dom.e, body.e>>] :
                           body \in {visit(e[3], dom.vs, cmp)}}) :
                      dom \in {visit(e[2], vs, cmp)}})
           [] OTHER -> [vs |-> vs, e |-> e]

\* blastenv::to_state: the loop over the hypotheses of the goal
RECURSIVE to_state_hyps(_, _, _, _)
to_state_hyps(hs, i, vs, cmp) ==
    IF i > Len(hs) \/ vs.err # "" THEN vs
    ELSE The({
         IF r.vs.err # "" THEN r.vs
         ELSE to_state_hyps(hs, i + 1,
                  [r.vs EXCEPT
                     !.st = mk_hypothesis_in(r.vs.st, r.e, hs[i].name),
                     !.local2href[hs[i].name] = Len(r.vs.st.hyps) + 1],
                  cmp) :
         r \in {visit(normalize(hs[i].type), vs, cmp)}})

\* blastenv::to_state: the visitor's data at the return or at the throw
to_state(g, mvar2meta_mref, cmp) ==
    LET vs0 == [st |-> EmptyState,
                mvar2meta_mref |-> mvar2meta_mref,
                local2href |-> [n \in ExtLocals |-> 0],
                err |-> "",
                log |-> <<>>]
    IN The({IF r.vs.err # "" THEN r.vs
            ELSE [r.vs EXCEPT !.st = set_target(@, r.e)] :
            r \in {visit(normalize(g.target),
                          to_state_hyps(g.hyps, 1, vs0, cmp), cmp)}})

\* blastenv::operator(): init_state(g), then the search
Run_InitState ==
    /\ pc = "init"
    /\ \E r \in {to_state(goal, m_mvar2meta_mref, nonlocal_name_cmp)} :
          /\ m_mvar2meta_mref' = r.mvar2meta_mref
          /\ to_state_s' = r.st
          /\ visit_log' = r.log
          /\ error' = r.err
          /\ IF r.err = ""
             THEN m_curr_state' = r.st /\ pc' = "search"
             ELSE UNCHANGED m_curr_state /\ pc' = "error"
    /\ UNCHANGED <<optionVars, engineVars, m_choice_points, d, s, result, depths_tried,
                   goal, nonlocal_name_cmp, tctxVars>>

(***************************************************************************)
(* The goals given to the internalizer.                                    *)
(***************************************************************************)
\* the longest argument list of a metavariable application
MaxArgs == 2

ConstA == mk_constant(1)
ConstF == mk_constant(2)
\* arguments: the locals x, y (hypotheses) and z (none), f x, and #0
ArgAtoms == {mk_local(1), mk_local(2), mk_local(3),
             mk_app(ConstF, mk_local(1)), mk_var(0)}
RECURSIVE ArgLists(_)
ArgLists(n) ==
    IF n = 0 THEN {<<>>}
    ELSE ArgLists(n - 1) \cup
         {Append(l, a) : l \in {k \in ArgLists(n - 1) : Len(k) = n - 1},
                         a \in ArgAtoms}
MetaApps == {mk_meta(m, l) : m \in ExtMvars, l \in ArgLists(MaxArgs)}
FirstTerms == {mk_meta(1, l) : l \in ArgLists(MaxArgs)}
                 \cup {ConstA, mk_local(1), mk_local(3)}
SecondTerms == MetaApps \cup {ConstA, mk_local(2), mk_local(3)}
Hyp(n, type) == [name |-> n, type |-> type]
\* two hypotheses x y : A and a target f t1 t2
PatternGoals ==
    {[hyps |-> <<Hyp(1, ConstA), Hyp(2, ConstA)>>,
      target |-> mk_app(mk_app(ConstF, t1), t2)] :
        t1 \in FirstTerms, t2 \in SecondTerms}
\* hypotheses whose types mention locals and metavariables
HypTypes == {ConstA, mk_local(1), mk_local(2), mk_meta(1, <<>>),
             mk_meta(1, <<mk_local(1)>>)}
HypLists ==
    {<<>>} \cup {<<Hyp(1, t)>> : t \in HypTypes}
           \cup {<<Hyp(1, t), Hyp(2, u)>> : t \in HypTypes, u \in HypTypes}
OrderGoals ==
    {[hyps |-> hs, target |-> t] :
        hs \in HypLists,
        t \in {ConstA, mk_local(1), mk_local(2), mk_local(3),
               mk_meta(1, <<mk_local(1)>>), mk_meta(1, <<mk_local(2)>>)}}
Goals == PatternGoals \cup OrderGoals

InternInit ==
    /\ m_max_depth = 1
    /\ m_init_depth = 0
    /\ m_inc_depth = 1
    /\ m_curr_state = EmptyState
    /\ m_choice_points = <<>>
    /\ pc = "init"
    /\ d = 0
    /\ s = EmptyState
    /\ result = NoneExpr
    /\ depths_tried = {}
    /\ goal \in Goals
    /\ error = ""
    /\ m_mvar2meta_mref = [m \in ExtMvars |-> NoMetaMref]
    /\ to_state_s = EmptyState
    /\ visit_log = <<>>
    /\ nonlocal_name_cmp \in {"assert", "equals", "differs"}
    /\ TctxIdle
    /\ EngineIdle


(***************************************************************************)
(* State: the assignment maps, their snapshots and the admissible          *)
(* contexts (library/blast/state.h, described by the specification).       *)
(***************************************************************************)
RECURSIVE hrefs_of(_)
hrefs_of(e) ==
    CASE is_href(e) -> {e[2]}
      [] e[1] \in {"app", "pi", "lam"} -> hrefs_of(e[2]) \cup hrefs_of(e[3])
      [] OTHER -> {}
RECURSIVE mrefs_of(_)
mrefs_of(e) ==
    CASE is_mref(e) -> {e[2]}
      [] e[1] \in {"app", "pi", "lam"} -> mrefs_of(e[2]) \cup mrefs_of(e[3])
      [] OTHER -> {}

\* the value the map gives key k: the last pair appended for it
Lookup(map, k, none) ==
    LET I == {i \in 1 .. Len(map) : map[i][1] = k}
    IN IF I = {} THEN none
       ELSE map[CHOOSE i \in I : \A j \in I : j <= i][2]

NoneLevel == <<"lnone">>
get_uref_assignment(st, u) == Lookup(st.uassignment, u, NoneLevel)
get_mref_assignment(st, m) == Lookup(st.eassignment, m, NoneExpr)
assign_uref(st, u, l) == [st EXCEPT !.uassignment = Append(@, <<u, l>>)]
assign_mref(st, m, v) == [st EXCEPT !.eassignment = Append(@, <<m, v>>)]

\* the snapshot records the sizes of the two assignment maps
save_assignment(st) ==
    [usize |-> Len(st.uassignment), esize |-> Len(st.eassignment)]
\* and restoring it shrinks the maps back to the recorded sizes
restore_assignment(st, snapshot) ==
    [st EXCEPT !.uassignment = SubSeq(@, 1, snapshot.usize),
               !.eassignment = SubSeq(@, 1, snapshot.esize)]

\* state::mk_metavar(type): the context is every hypothesis of the State
mk_metavar_full(st, type) ==
    mk_metavar_in(st, 1 .. Len(st.hyps), type)

\* a value fits a context: its hrefs, and the contexts of its mrefs, are in it
FitsContext(st, v, ctx) ==
    /\ hrefs_of(v) \subseteq ctx
    /\ \A m \in mrefs_of(v) : st.mdecls[m].ctx \subseteq ctx

\* state::restrict_mref_context_using(m1, m2): the context of m1 becomes its
\* intersection with the context of m2; it fails, leaving the State alone,
\* when that would invalidate the assignment of m1
restrict_mref_context_using(st, m1, m2) ==
    LET ctx == st.mdecls[m1].ctx \cap st.mdecls[m2].ctx
        v1  == get_mref_assignment(st, m1)
    IN IF v1 # NoneExpr /\ ~FitsContext(st, v1, ctx)
       THEN st
       ELSE [st EXCEPT !.mdecls[m1].ctx = ctx]

(***************************************************************************)
(* blastenv::tctx: the type-context facade.                                *)
(***************************************************************************)
is_tmp_local(e) == e[1] = "tmp"

\* tctx::get_assignment
tctx_get_assignment_level(st, u) == get_uref_assignment(st, u)
tctx_get_assignment(st, m) == get_mref_assignment(st, m)
\* tctx::update_assignment
tctx_update_assignment_level(st, u, l) == assign_uref(st, u, l)
tctx_update_assignment(st, m, v) == assign_mref(st, m, v)

\* a check that lets the metavariable m itself through
validate_at_no_occurs_check(e, m, locals, r) ==
    IF ~r.ok
    THEN [st |-> r.st, ok |-> FALSE, descend |-> FALSE]
    ELSE IF is_href(e)
    THEN [st |-> r.st, ok |-> e[2] \in r.st.mdecls[m].ctx,
          descend |-> e[2] \in r.st.mdecls[m].ctx]
    ELSE IF is_local(e) /\ ~is_tmp_local(e)
    THEN [st |-> r.st, ok |-> mlocal_name(e) \in locals,
          descend |-> mlocal_name(e) \in locals]
    ELSE IF is_mref(e)
    THEN [st |-> IF e[2] = m THEN r.st
                 ELSE restrict_mref_context_using(r.st, e[2], m),
          ok |-> TRUE, descend |-> FALSE]
    ELSE [st |-> r.st, ok |-> TRUE, descend |-> TRUE]

\* what the function given to for_each does at the subterm e: r is [st, ok];
\* the result adds descend, whether for_each goes into the subterms of e
validate_at(e, m, locals, r) ==
    IF ~r.ok
    THEN [st |-> r.st, ok |-> FALSE, descend |-> FALSE]   \* stop search
    ELSE IF is_href(e)
    THEN IF e[2] \notin r.st.mdecls[m].ctx
         THEN [st |-> r.st, ok |-> FALSE, descend |-> FALSE]   \* failed 1
         ELSE [st |-> r.st, ok |-> TRUE, descend |-> TRUE]
    ELSE IF is_local(e) /\ ~is_tmp_local(e)
    THEN IF \A a \in locals : a # mlocal_name(e)
         THEN [st |-> r.st, ok |-> FALSE, descend |-> FALSE]   \* failed 3
         ELSE [st |-> r.st, ok |-> TRUE, descend |-> TRUE]
    ELSE IF is_mref(e)
    THEN IF e[2] = m
         THEN [st |-> r.st, ok |-> FALSE, descend |-> FALSE]   \* failed 4
         ELSE [st |-> restrict_mref_context_using(r.st, e[2], m),   \* enforce 2
               ok |-> TRUE, descend |-> FALSE]
    ELSE [st |-> r.st, ok |-> TRUE, descend |-> TRUE]

\* for_each(v, f): f at e, then at the subterms of e from left to right
RECURSIVE validate_for_each(_, _, _, _)
validate_for_each(e, m, locals, r) ==
    The({IF a.descend /\ e[1] \in {"app", "pi", "lam"}
         THEN The({validate_for_each(e[3], m, locals, b) :
                   b \in {validate_for_each(e[2], m, locals,
                                            [st |-> a.st, ok |-> a.ok])}})
         ELSE [st |-> a.st, ok |-> a.ok] :
         a \in {validate_at(e, m, locals, r)}})

\* tctx::validate_assignment(m, locals, v): [st, ok]
validate_assignment(st, m, locals, v) ==
    validate_for_each(v, m, locals, [st |-> st, ok |-> TRUE])

\* tctx::mk_mvar
tctx_mk_mvar(st, type) == mk_metavar_full(st, type)

\* a pop that drops the snapshot without restoring it
tctx_pop_without_restore(st, stack) ==
    [st |-> st, stack |-> SubSeq(stack, 1, Len(stack) - 1)]

\* tctx::push, pop, commit: [st, stack]
tctx_push(st, stack) ==
    [st |-> st, stack |-> Append(stack, save_assignment(st))]
tctx_pop(st, stack) ==
    [st |-> restore_assignment(st, stack[Len(stack)]),
     stack |-> SubSeq(stack, 1, Len(stack) - 1)]
tctx_commit(st, stack) ==
    [st |-> st, stack |-> SubSeq(stack, 1, Len(stack) - 1)]

\* the number of assignments a State of the model may hold
MaxAssign == 2
\* the number of metavariables a State of the model may declare
MaxMrefs == 3
\* the depth the snapshot stack may reach in the model
MaxStack == 2

CanAssign == Len(m_curr_state.eassignment) + Len(m_curr_state.uassignment) < MaxAssign
DeclaredMrefs == 1 .. Len(m_curr_state.mdecls)

\* the values offered to the unifier: the hypotheses h1 h2, the
\* metavariables, the external local x, a temporary local, and applications
ValueLeaves ==
    {mk_href(1), mk_href(2), mk_mref(1), mk_mref(2), mk_local(1), <<"tmp", 1>>}
Values ==
    ValueLeaves \cup
    {mk_app(mk_mref(2), mk_href(2)), mk_app(mk_href(1), mk_mref(1)),
     mk_app(mk_href(1), mk_local(1))}
\* the locals argument matters for the values that mention a local
AssignInputs ==
    {[locals |-> {}, v |-> v] : v \in Values} \cup
    {[locals |-> {1}, v |-> v] : v \in {mk_local(1),
                                        mk_app(mk_href(1), mk_local(1))}}
Urefs == {1}
Levels == {<<"lzero">>}

Call(op, m, locals, v, ok, before, at_push) ==
    [op |-> op, m |-> m, locals |-> locals, v |-> v, ok |-> ok,
     before |-> before, at_push |-> at_push, depth |-> Len(m_stack)]

\* the unifier runs on the bare facade ("tctx") or under scope_assignment
\* guards ("scope")
InTctx == pc \in {"tctx", "scope"}

\* type_context assigning m := v: validate_assignment, then, when it
\* returned true, update_assignment
Tctx_Assign(m, locals, v) ==
    /\ InTctx
    /\ CanAssign
    /\ m \in DeclaredMrefs
    /\ mrefs_of(v) \subseteq DeclaredMrefs
    /\ \E r \in {validate_assignment(m_curr_state, m, locals, v)} :
          /\ m_curr_state' = IF r.ok THEN tctx_update_assignment(r.st, m, v)
                             ELSE r.st
          /\ last_call' = Call("validate", m, locals, v, r.ok, m_curr_state,
                               EmptyState)
    /\ UNCHANGED <<optionVars, engineVars, m_choice_points, searchVars, internVars,
                   m_stack, guards, pushed>>

\* type_context assigning the universe metavariable u := l
Tctx_AssignLevel(u, l) ==
    /\ InTctx
    /\ CanAssign
    /\ m_curr_state' = tctx_update_assignment_level(m_curr_state, u, l)
    /\ last_call' = Call("update_level", u, {}, l, TRUE, EmptyState,
                         EmptyState)
    /\ UNCHANGED <<optionVars, engineVars, m_choice_points, searchVars, internVars,
                   m_stack, guards, pushed>>

Tctx_MkMvar ==
    /\ pc = "tctx"
    /\ Len(m_curr_state.mdecls) < MaxMrefs
    /\ m_curr_state' = tctx_mk_mvar(m_curr_state, ConstA)
    /\ last_call' = Call("mk_mvar", 0, {}, NoneExpr, TRUE, EmptyState,
                         EmptyState)
    /\ UNCHANGED <<optionVars, engineVars, m_choice_points, searchVars, internVars,
                   m_stack, guards, pushed>>

\* pushed keeps, for every snapshot of m_stack, the State at its push
Tctx_Push ==
    /\ pc = "tctx"
    /\ Len(m_stack) < MaxStack
    /\ \E r \in {tctx_push(m_curr_state, m_stack)} :
          /\ m_curr_state' = r.st
          /\ m_stack' = r.stack
    /\ pushed' = Append(pushed, m_curr_state)
    /\ last_call' = Call("push", 0, {}, NoneExpr, TRUE, EmptyState,
                         EmptyState)
    /\ UNCHANGED <<optionVars, engineVars, m_choice_points, searchVars, internVars, guards>>

Tctx_Pop ==
    /\ pc = "tctx"
    /\ m_stack # <<>>
    /\ \E r \in {tctx_pop(m_curr_state, m_stack)} :
          /\ m_curr_state' = r.st
          /\ m_stack' = r.stack
    /\ pushed' = SubSeq(pushed, 1, Len(pushed) - 1)
    /\ last_call' = Call("pop", 0, {}, NoneExpr, TRUE, m_curr_state,
                         pushed[Len(pushed)])
    /\ UNCHANGED <<optionVars, engineVars, m_choice_points, searchVars, internVars, guards>>

Tctx_Commit ==
    /\ pc = "tctx"
    /\ m_stack # <<>>
    /\ \E r \in {tctx_commit(m_curr_state, m_stack)} :
          /\ m_curr_state' = r.st
          /\ m_stack' = r.stack
    /\ pushed' = SubSeq(pushed, 1, Len(pushed) - 1)
    /\ last_call' = Call("commit", 0, {}, NoneExpr, TRUE, EmptyState,
                         EmptyState)
    /\ UNCHANGED <<optionVars, engineVars, m_choice_points, searchVars, internVars, guards>>

\* the States the unifier works on: two active hypotheses h1 h2 and two
\* metavariables with the admissible contexts c1 and c2
TctxState(c1, c2) ==
    [EmptyState EXCEPT
       !.hyps = << [type |-> ConstA, active |-> TRUE, local |-> 1,
                    value |-> NoneExpr],
                   [type |-> ConstA, active |-> TRUE, local |-> 2,
                    value |-> NoneExpr] >>,
       !.mdecls = << [ctx |-> c1, type |-> ConstA],
                     [ctx |-> c2, type |-> ConstA] >>,
       !.target = ConstA]
TctxStates == {TctxState(c1, {1, 2}) : c1 \in {{1}, {1, 2}}}

TctxStart(p) ==
    /\ m_max_depth = 1
    /\ m_init_depth = 0
    /\ m_inc_depth = 1
    /\ m_curr_state \in TctxStates
    /\ m_choice_points = <<>>
    /\ pc = p
    /\ d = 0
    /\ s = EmptyState
    /\ result = NoneExpr
    /\ depths_tried = {}
    /\ goal = [hyps |-> <<>>, target |-> ConstA]
    /\ error = ""
    /\ m_mvar2meta_mref = [m \in ExtMvars |-> NoMetaMref]
    /\ to_state_s = EmptyState
    /\ visit_log = <<>>
    /\ nonlocal_name_cmp = "differs"
    /\ TctxIdle
    /\ EngineIdle

TctxInit == TctxStart("tctx")

TctxNext ==
    \/ \E m \in 1 .. MaxMrefs : \E in \in AssignInputs :
          Tctx_Assign(m, in.locals, in.v)
    \/ \E u \in Urefs : \E l \in Levels : Tctx_AssignLevel(u, l)
    \/ Tctx_MkMvar
    \/ Tctx_Push
    \/ Tctx_Pop
    \/ Tctx_Commit

TctxSpec == TctxInit /\ [][TctxNext]_vars


(***************************************************************************)
(* scope_assignment: the guard that pushes on construction and pops or     *)
(* commits on destruction.                                                 *)
(***************************************************************************)
\* scope_assignment::scope_assignment(): [guard, st, stack]
scope_assignment_ctor(st, stack) ==
    The({[guard |-> [m_keep |-> FALSE], st |-> r.st, stack |-> r.stack] :
         r \in {tctx_push(st, stack)}})
\* a destructor that pops whether or not commit() was called
scope_assignment_dtor_always_pops(guard, st, stack) == tctx_pop(st, stack)
\* scope_assignment::~scope_assignment(): [st, stack]
scope_assignment_dtor(guard, st, stack) ==
    IF guard.m_keep THEN tctx_commit(st, stack) ELSE tctx_pop(st, stack)
\* scope_assignment::commit()
scope_assignment_commit(guard) == [guard EXCEPT !.m_keep = TRUE]

Scope_Construct ==
    /\ pc = "scope"
    /\ Len(guards) < MaxStack
    /\ \E r \in {scope_assignment_ctor(m_curr_state, m_stack)} :
          /\ guards' = Append(guards, r.guard)
          /\ m_curr_state' = r.st
          /\ m_stack' = r.stack
    /\ pushed' = Append(pushed, m_curr_state)
    /\ last_call' = Call("construct", 0, {}, NoneExpr, TRUE, EmptyState,
                         EmptyState)
    /\ UNCHANGED <<optionVars, engineVars, m_choice_points, searchVars, internVars>>

\* commit() on any live guard that has not committed yet
Scope_Commit(i) ==
    /\ pc = "scope"
    /\ i \in 1 .. Len(guards)
    /\ ~guards[i].m_keep
    /\ guards' = [guards EXCEPT ![i] = scope_assignment_commit(@)]
    /\ last_call' = Call("scope_commit", i, {}, NoneExpr, TRUE, EmptyState,
                         EmptyState)
    /\ UNCHANGED <<optionVars, engineVars, m_curr_state, m_choice_points, searchVars,
                   internVars, m_stack, pushed>>

\* the innermost guard goes out of scope
Scope_Destruct ==
    /\ pc = "scope"
    /\ guards # <<>>
    /\ \E r \in {scope_assignment_dtor(guards[Len(guards)], m_curr_state,
                                       m_stack)} :
          /\ m_curr_state' = r.st
          /\ m_stack' = r.stack
    /\ guards' = SubSeq(guards, 1, Len(guards) - 1)
    /\ pushed' = SubSeq(pushed, 1, Len(pushed) - 1)
    /\ last_call' = Call("release", 0, {}, NoneExpr,
                         guards[Len(guards)].m_keep, m_curr_state,
                         pushed[Len(pushed)])
    /\ UNCHANGED <<optionVars, engineVars, m_choice_points, searchVars, internVars>>

ScopeInit == TctxStart("scope")

ScopeNext ==
    \/ \E m \in 1 .. MaxMrefs : \E in \in AssignInputs :
          Tctx_Assign(m, in.locals, in.v)
    \/ \E u \in Urefs : \E l \in Levels : Tctx_AssignLevel(u, l)
    \/ Scope_Construct
    \/ \E i \in 1 .. MaxStack : Scope_Commit(i)
    \/ Scope_Destruct

ScopeSpec == ScopeInit /\ [][ScopeNext]_vars

(***************************************************************************)
(* The claims about the type-context facade and scope_assignment.          *)
(***************************************************************************)
AllMrefs == 1 .. MaxMrefs
\* get_assignment answers the same for every mref and uref in st1 and st2
SameAssignments(st1, st2) ==
    /\ \A m \in AllMrefs :
          tctx_get_assignment(st1, m) = tctx_get_assignment(st2, m)
    /\ \A u \in Urefs :
          tctx_get_assignment_level(st1, u) = tctx_get_assignment_level(st2, u)

\* C6: after a pop, get_assignment returns for every mref and every uref
\* what it returned immediately before the matching push: none for the
\* references unassigned then, the old value for the ones assigned then.
C6_PopRestoresAssignments ==
    last_call.op = "pop" => SameAssignments(m_curr_state, last_call.at_push)

\* a pop took back an assignment made since the push and kept one made
\* before it
C6_Witness ==
    /\ last_call.op = "pop"
    /\ \E m \in AllMrefs :
          /\ tctx_get_assignment(last_call.at_push, m) = NoneExpr
          /\ tctx_get_assignment(last_call.before, m) # NoneExpr
          /\ tctx_get_assignment(m_curr_state, m) = NoneExpr
    /\ \E m \in AllMrefs :
          /\ tctx_get_assignment(last_call.at_push, m) # NoneExpr
          /\ tctx_get_assignment(m_curr_state, m) # NoneExpr

\* C7: the State after a pop equals the State before the matching push
\* exactly: the same assignments, the same metavariable declarations and
\* the same admissible context for every metavariable; so for the outer
\* pop of push; push; pop; pop as for the inner one.
C7_PopRestoresState ==
    last_call.op = "pop" => m_curr_state = last_call.at_push

\* C8: the snapshot stack is as deep as there are live guards and a release
\* removes one snapshot; the release of a guard that committed keeps the
\* assignments made inside it, the release of a guard that did not reverts
\* them to what they were at its construction.
C8_GuardsMatchStack ==
    pc = "scope" =>
        /\ Len(m_stack) = Len(guards)
        /\ last_call.op = "release" =>
              /\ Len(m_stack) = last_call.depth - 1
              /\ last_call.ok =>
                    /\ m_curr_state.eassignment = last_call.before.eassignment
                    /\ m_curr_state.uassignment = last_call.before.uassignment
                    /\ SameAssignments(m_curr_state, last_call.before)
              /\ ~last_call.ok =>
                    /\ m_curr_state.eassignment = last_call.at_push.eassignment
                    /\ m_curr_state.uassignment = last_call.at_push.uassignment
                    /\ SameAssignments(m_curr_state, last_call.at_push)

\* the outermost guard was released without commit and took back two
\* assignments made inside it, under two nested guards
C8_Witness ==
    /\ pc = "scope"
    /\ last_call.op = "release"
    /\ ~last_call.ok
    /\ guards = <<>>
    /\ Len(last_call.before.eassignment)
          >= Len(last_call.at_push.eassignment) + 2
    /\ Len(m_curr_state.eassignment) = Len(last_call.at_push.eassignment)

\* the recorded assignment m -> v passes the checks
ValidAssignment(st, m, v) ==
    /\ hrefs_of(v) \subseteq st.mdecls[m].ctx
    /\ m \notin mrefs_of(v)
    /\ \A m2 \in mrefs_of(v) : st.mdecls[m2].ctx \subseteq st.mdecls[m].ctx

\* C9: in every State each recorded assignment m -> v satisfies: every href
\* of v is in the admissible context of m, m does not occur in v, and every
\* other mref of v has an admissible context within that of m.
C9_AssignmentsValid ==
    pc = "tctx" =>
        \A i \in 1 .. Len(m_curr_state.eassignment) :
            ValidAssignment(m_curr_state, m_curr_state.eassignment[i][1],
                            m_curr_state.eassignment[i][2])

\* the external (non temporary) local constants of e
RECURSIVE ext_locals_of(_)
ext_locals_of(e) ==
    CASE is_local(e) -> {mlocal_name(e)}
      [] e[1] \in {"app", "pi", "lam"} ->
            ext_locals_of(e[2]) \cup ext_locals_of(e[3])
      [] OTHER -> {}
\* v holds an href outside the context of m, an external local constant
\* outside locals, or m itself
Breach(st, m, locals, v) ==
    \/ ~(hrefs_of(v) \subseteq st.mdecls[m].ctx)
    \/ ~(ext_locals_of(v) \subseteq locals)
    \/ m \in mrefs_of(v)

\* C10: validate_assignment(m, locals, v) returns false exactly when v
\* holds an href that is not in the admissible context of m, an external
\* local constant that is not in locals, or m itself, and true otherwise;
\* the rejection is the return value and raises no error.
C10_ValidateRejectsExactly ==
    last_call.op = "validate" =>
        /\ last_call.ok <=>
              ~Breach(last_call.before, last_call.m, last_call.locals,
                      last_call.v)
        /\ error = ""
        /\ pc = "tctx"

\* m1 := h1 ?m1 was rejected for the occurrence of m1 alone, and nothing
\* was recorded
C10_Witness ==
    /\ last_call.op = "validate"
    /\ ~last_call.ok
    /\ last_call.m = 1
    /\ last_call.v = mk_app(mk_href(1), mk_mref(1))
    /\ m_curr_state = last_call.before

(***************************************************************************)
(* blastenv::to_tactic_proof: the externalizer, and the return of          *)
(* blastenv::operator().                                                   *)
(***************************************************************************)
\* state::instantiate_urefs_mrefs: the assigned mrefs of e are replaced by
\* their assignments, again and again
RECURSIVE instantiate_urefs_mrefs(_, _)
instantiate_urefs_mrefs(st, e) ==
    CASE is_mref(e) ->
            IF get_mref_assignment(st, e[2]) = NoneExpr THEN e
            ELSE instantiate_urefs_mrefs(st, get_mref_assignment(st, e[2]))
      [] e[1] \in {"app", "pi", "lam"} ->
            <<e[1], instantiate_urefs_mrefs(st, e[2]),
                    instantiate_urefs_mrefs(st, e[3])>>
      [] OTHER -> e

\* hypothesis::get_value of the hypothesis of the href e
get_value(st, e) == st.hyps[e[2]].value

\* replace_visitor::visit_local and visit_meta rebuild the leaf from its
\* visited type; the leaves of the model carry no type
replace_visitor_visit_local(e) == e
replace_visitor_visit_meta(e) == e

\* to_tactic_proof_fn::visit_local
RECURSIVE to_tactic_proof_visit(_, _)
to_tactic_visit_local(st, e) ==
    IF is_href(e) /\ get_value(st, e) # NoneExpr
    THEN to_tactic_proof_visit(st, get_value(st, e))
    ELSE replace_visitor_visit_local(e)

\* to_tactic_proof_fn::visit_meta
to_tactic_visit_meta(st, e) ==
    The({IF v = e THEN v ELSE replace_visitor_visit_meta(v) :
         v \in {instantiate_urefs_mrefs(st, e)}})

\* replace_visitor::visit: the two overridden cases, the others rebuilt
\* from their visited parts
to_tactic_proof_visit(st, e) ==
    CASE is_href(e) \/ is_local(e) \/ is_tmp_local(e) ->
            to_tactic_visit_local(st, e)
      [] is_mref(e) -> to_tactic_visit_meta(st, e)
      [] e[1] \in {"app", "pi", "lam"} ->
            <<e[1], to_tactic_proof_visit(st, e[2]),
                    to_tactic_proof_visit(st, e[3])>>
      [] OTHER -> e

\* blastenv::to_tactic_proof
to_tactic_proof(st, pr) == to_tactic_proof_visit(st, pr)

\* operator(): if (auto r = search()) return some_expr(to_tactic_proof(*r));
\* else return none_expr();
Run_Return ==
    /\ pc = "done"
    /\ UNCHANGED poolVars
    /\ run_result' = IF result # NoneExpr
                     THEN to_tactic_proof(m_curr_state, result)
                     ELSE NoneExpr
    /\ pc' = "returned"
    /\ UNCHANGED <<g_blastenv, scopes, num_engines, next_idx, owner, handed,
                   last_dispatch, last_action>>
    /\ UNCHANGED <<optionVars, m_curr_state, m_choice_points, d, s, result,
                   depths_tried, internVars, tctxVars>>

InternNext ==
    \/ Run_InitState
    \/ Search_Begin
    \/ Search_While
    \/ SearchUpto_Step
    \/ Search_Advance
    \/ Run_Return

InternSpec == InternInit /\ [][InternNext]_vars /\ WF_vars(InternNext)

(***************************************************************************)
(* The search goals: implication chains over atoms, with given hypotheses.  *)
(***************************************************************************)
Atoms == {mk_constant(n) : n \in 1 .. NumAtoms}
SearchTargets ==
    Atoms \cup {mk_pi(a, b) : a \in Atoms, b \in Atoms}
          \cup {mk_pi(a, mk_pi(b, c)) : a \in Atoms, b \in Atoms, c \in Atoms}
SearchStates ==
    { set_target(EmptyState, t) : t \in SearchTargets }
    \cup { set_target(mk_hypothesis_in(EmptyState, a, 1), t) :
              a \in Atoms, t \in Atoms }

\* the option values the search is run with: the ends of the unsigned
\* range, small values, and an increment that wraps after two rounds
MaxDepths == {0, 2, Modulus - 1}
InitDepths == {0, 1, Modulus - 1}
IncDepths == {0, 1, Modulus \div 2}

SearchInit ==
    /\ m_max_depth \in MaxDepths
    /\ m_init_depth \in InitDepths
    /\ m_inc_depth \in IncDepths
    /\ m_curr_state \in SearchStates
    /\ m_choice_points = <<>>
    /\ pc = "search"
    /\ d = 0
    /\ s = EmptyState
    /\ result = NoneExpr
    /\ depths_tried = {}
    /\ goal = [hyps |-> <<>>, target |-> m_curr_state.target]
    /\ error = ""
    /\ m_mvar2meta_mref = [m \in ExtMvars |-> NoMetaMref]
    /\ to_state_s = m_curr_state
    /\ visit_log = <<>>
    /\ nonlocal_name_cmp = "differs"
    /\ TctxIdle
    /\ EngineIdle

SearchNext ==
    \/ Search_Begin
    \/ Search_While
    \/ SearchUpto_Step
    \/ Search_Advance
    \/ Run_Return

\* the search is a plain sequential computation: it always takes its next step
SearchSpec == SearchInit /\ [][SearchNext]_vars /\ WF_vars(SearchNext)

(***************************************************************************)
(* Claims about the depth series of search().                              *)
(***************************************************************************)
SearchReturned == pc = "done"
ProofFound == pc = "done" /\ result # NoneExpr

\* C1: for every value of the three options, a search() whose bounded
\* searches all fail eventually returns none (it neither loops forever nor
\* raises an error).
C1_SearchReturnsNone ==
    ([](~ProofFound)) => <>(SearchReturned /\ result = NoneExpr)

\* C2: the bounds passed to search_upto are init_depth + k * inc_depth for
\* k = 0, 1, ..., strictly increasing, each <= max_depth, none passed twice;
\* with init_depth > max_depth none is passed and the result is none.
C2_DepthSeries ==
    /\ \A t \in depths_tried : t <= m_max_depth
    /\ (pc = "while" /\ d <= m_max_depth) =>
           /\ d = m_init_depth + Cardinality(depths_tried) * m_inc_depth
           /\ \A t \in depths_tried : t < d
    /\ (pc = "done" /\ m_init_depth > m_max_depth) =>
           depths_tried = {} /\ result = NoneExpr

(***************************************************************************)
(* Claims about the internalizer.                                          *)
(***************************************************************************)
\* the length of the longest prefix of args made of closed terms
ClosedPrefixLen(args) ==
    CHOOSE k \in 0 .. Len(args) :
        /\ \A i \in 1 .. k : closed(args[i])
        /\ k = Len(args) \/ ~closed(args[k + 1])
\* the names of the local constants in the closed prefix
PrefixLocals(args) ==
    {mlocal_name(args[i]) : i \in {j \in 1 .. ClosedPrefixLen(args) : is_local(args[j])}}
\* the closed prefix holds a non-local argument or the same local twice
OutsidePattern(args) ==
    LET k == ClosedPrefixLen(args)
    IN \/ \E i \in 1 .. k : ~is_local(args[i])
       \/ \E i \in 1 .. k : \E j \in 1 .. k :
             i < j /\ is_local(args[i]) /\ args[i] = args[j]
Allocated == {i \in 1 .. Len(visit_log) : visit_log[i].outcome = "allocated"}
\* the last call failed as unsupported and left the metavariable without mref
RejectedUnallocated(i) ==
    /\ visit_log[i].outcome = "unsupported"
    /\ error = "unsupported"
    /\ i = Len(visit_log)
    /\ m_mvar2meta_mref[visit_log[i].e[2]].mref = 0
    /\ Len(to_state_s.mdecls) = Cardinality(Allocated)

Agrees(decl_args, args) ==
    /\ Len(args) >= Len(decl_args)
    /\ \A k \in 1 .. Len(decl_args) : args[k] = decl_args[k]
\* the call that internalized the metavariable of the later call i
FirstOccurrence(i) ==
    CHOOSE j \in 1 .. i :
        /\ visit_log[j].first
        /\ visit_log[j].outcome = "allocated"
        /\ visit_log[j].e[2] = visit_log[i].e[2]

\* C4: a later occurrence of an internalized metavariable is accepted only
\* if its arguments agree position by position with the recorded ones and
\* are at least as many; every mismatch fails as unsupported.
C4_ReoccurrenceMustMatch ==
    pc # "init" =>
        \A i \in 1 .. Len(visit_log) :
            LET en == visit_log[i]
            IN ~en.first =>
                /\ en.outcome = "matched" <=>
                       Agrees(visit_log[FirstOccurrence(i)].e[3], en.e[3])
                /\ en.outcome # "matched" =>
                       /\ en.outcome = "unsupported"
                       /\ error = "unsupported"
                       /\ pc = "error"
                       /\ i = Len(visit_log)

\* ?m x was seen first and then ?m y for distinct locals x and y
C4_Witness ==
    /\ pc = "error"
    /\ \E i \in 1 .. Len(visit_log) :
          LET en == visit_log[i]
          IN /\ ~en.first
             /\ Len(en.e[3]) = 1 /\ is_local(en.e[3][1])
             /\ Len(visit_log[FirstOccurrence(i)].e[3]) = 1
             /\ is_local(visit_log[FirstOccurrence(i)].e[3][1])
             /\ en.e[3] # visit_log[FirstOccurrence(i)].e[3]
             /\ en.outcome = "unsupported"

\* the local constants of e outside the closed prefix of a metavariable
\* application
RECURSIVE LocalsOutsidePrefix(_)
LocalsOutsidePrefix(e) ==
    CASE is_local(e) -> {mlocal_name(e)}
      [] e[1] \in {"app", "pi", "lam"} ->
            LocalsOutsidePrefix(e[2]) \cup LocalsOutsidePrefix(e[3])
      [] is_meta(e) ->
            UNION {LocalsOutsidePrefix(e[3][i]) :
                      i \in (ClosedPrefixLen(e[3]) + 1) .. Len(e[3])}
      [] OTHER -> {}
\* the target or a hypothesis type holds, outside a context prefix, a local
\* constant that is no hypothesis given earlier
MentionsUnknownLocal(g) ==
    \/ \E i \in 1 .. Len(g.hyps) :
          ~(LocalsOutsidePrefix(g.hyps[i].type)
                \subseteq {g.hyps[j].name : j \in 1 .. (i - 1)})
    \/ ~(LocalsOutsidePrefix(g.target)
             \subseteq {g.hyps[j].name : j \in 1 .. Len(g.hyps)})
\* a failed internalization leaves the current State alone and starts no search
FailureLeavesState ==
    error # "" =>
        /\ pc = "error"
        /\ m_curr_state = EmptyState
        /\ m_choice_points = <<>>
        /\ depths_tried = {}

\* C5 (as claimed): a goal that mentions such a local constant fails with
\* the ill-formed input goal error; a failed internalization leaves the
\* current State as it was and starts no search.
C5_UnknownLocalIllFormed ==
    /\ (pc # "init" /\ MentionsUnknownLocal(goal)) => error = "ill_formed"
    /\ FailureLeavesState

\* C5 (amended): such a goal fails: with the ill-formed input goal error,
\* unless a metavariable application met earlier in the traversal fails
\* first, and then with the error of that application; a failed
\* internalization leaves the current State as it was and starts no search.
C5_UnknownLocalFails ==
    /\ (pc # "init" /\ MentionsUnknownLocal(goal)) =>
          /\ error # ""
          /\ \/ error = "ill_formed"
             \/ /\ visit_log # <<>>
                /\ visit_log[Len(visit_log)].outcome = error
                /\ error \in {"unsupported", "assert"}
          /\ (\A i \in 1 .. Len(visit_log) :
                 visit_log[i].outcome \in {"allocated", "matched"})
                => error = "ill_formed"
    /\ FailureLeavesState

\* a hypothesis type mentions a later hypothesis and the internalization
\* failed as ill-formed
C5_Witness ==
    /\ pc = "error"
    /\ error = "ill_formed"
    /\ Len(goal.hyps) = 2
    /\ goal.hyps[1].type = mk_local(goal.hyps[2].name)


(***************************************************************************)
(* The thread-local engine pointer g_blastenv, scope_blastenv, and the     *)
(* index counters that the constructor of blastenv initializes.            *)
(***************************************************************************)
\* init_uref_mref_href_idxs(): the counters of the calling thread start over
init_uref_mref_href_idxs == [k \in IndexKinds |-> 0]

\* a destructor that clears the pointer
scope_blastenv_dtor_clears(guard) ==
    0

\* scope_blastenv(blastenv & c): m_prev_blastenv(g_blastenv) { g_blastenv = &c; }
scope_blastenv_ctor(g, c) ==
    [guard |-> [m_prev_blastenv |-> g, engine |-> c], g |-> c]
\* ~scope_blastenv() { g_blastenv = m_prev_blastenv; }
scope_blastenv_dtor(guard) ==
    guard.m_prev_blastenv

\* the engine of the innermost live scope_blastenv of thread t, 0 without one
Innermost(t) ==
    IF scopes[t] = <<>> THEN 0 ELSE scopes[t][Len(scopes[t])].engine

\* blast_goal or scope_debug on thread t: blastenv b(...); scope_blastenv scope2(b);
Engine_Install(t) ==
    /\ pc = "engine"
    /\ UNCHANGED poolVars
    /\ num_engines < MaxEngines
    /\ num_engines' = num_engines + 1
    /\ owner' = Append(owner, t)
    /\ next_idx' = [next_idx EXCEPT ![t] = init_uref_mref_href_idxs]
    /\ \E r \in {scope_blastenv_ctor(g_blastenv[t], num_engines + 1)} :
          /\ scopes' = [scopes EXCEPT ![t] = Append(@, r.guard)]
          /\ g_blastenv' = [g_blastenv EXCEPT ![t] = r.g]
    /\ UNCHANGED <<optionVars, m_curr_state, m_choice_points, searchVars,
                   internVars, tctxVars, run_result, handed, last_dispatch,
                   last_action>>

\* blast_goal returns or an exception leaves it: scope2 is destroyed, then b
Engine_Uninstall(t) ==
    /\ pc = "engine"
    /\ UNCHANGED poolVars
    /\ scopes[t] # <<>>
    /\ g_blastenv' = [g_blastenv EXCEPT
                         ![t] = scope_blastenv_dtor(scopes[t][Len(scopes[t])])]
    /\ scopes' = [scopes EXCEPT ![t] = SubSeq(@, 1, Len(@) - 1)]
    /\ UNCHANGED <<optionVars, m_curr_state, m_choice_points, searchVars,
                   internVars, tctxVars, run_result, num_engines, next_idx,
                   owner, handed, last_dispatch, last_action>>

\* a free function (env(), curr_state(), whnf(e), ...) called on thread t
Engine_Call(t) ==
    /\ pc = "engine"
    /\ UNCHANGED poolVars
    /\ g_blastenv[t] # 0
    /\ last_dispatch' = [thread |-> t, engine |-> g_blastenv[t],
                         innermost |-> Innermost(t)]
    /\ UNCHANGED <<optionVars, m_curr_state, m_choice_points, searchVars,
                   internVars, tctxVars, run_result, g_blastenv, scopes,
                   num_engines, next_idx, owner, handed, last_action>>

\* the engine installed on thread t takes a fresh index of kind k
\* (mk_hypothesis, mk_metavar, mk_fresh_uref)
Engine_Fresh(t, k) ==
    /\ pc = "engine"
    /\ UNCHANGED poolVars
    /\ g_blastenv[t] # 0
    /\ Len(handed) < MaxFresh
    /\ handed' = Append(handed, [engine |-> g_blastenv[t], kind |-> k,
                                 idx |-> next_idx[t][k]])
    /\ next_idx' = [next_idx EXCEPT ![t][k] = @ + 1]
    /\ UNCHANGED <<optionVars, m_curr_state, m_choice_points, searchVars,
                   internVars, tctxVars, run_result, g_blastenv, scopes,
                   num_engines, owner, last_dispatch, last_action>>

EngineInit == TctxStart("engine")

EngineNext ==
    \/ \E t \in Threads : Engine_Install(t)
    \/ \E t \in Threads : Engine_Uninstall(t)
    \/ \E t \in Threads : Engine_Call(t)
    \/ \E t \in Threads : \E k \in IndexKinds : Engine_Fresh(t, k)

EngineSpec == EngineInit /\ [][EngineNext]_vars

(***************************************************************************)
(* The pool of scratch type-contexts: blastenv::mk_tmp_type_context,       *)
(* recycle_tmp_type_context and the guard blast_tmp_type_context.          *)
(***************************************************************************)
\* a scratch context: what it holds, its index counters, and whether
\* set_local_instances(m_initial_context) was applied to it
NewTmpCtx == [used |-> FALSE, next_uvar_idx |-> 0, next_mvar_idx |-> 0,
              local_instances |-> FALSE]
\* tmp_type_context::clear
tmp_ctx_clear(c) ==
    [c EXCEPT !.used = FALSE, !.next_uvar_idx = 0, !.next_mvar_idx = 0]

\* an acquisition that takes the context released first
mk_tmp_type_context_oldest(ctxs, pool) ==
    IF pool = <<>>
    THEN [r |-> Len(ctxs) + 1, pool |-> pool,
          ctxs |-> Append(ctxs, [NewTmpCtx EXCEPT !.local_instances = TRUE])]
    ELSE [r |-> pool[1], pool |-> SubSeq(pool, 2, Len(pool)),
          ctxs |-> [ctxs EXCEPT ![pool[1]].local_instances = TRUE]]

\* blastenv::mk_tmp_type_context: [r, pool, ctxs]
mk_tmp_type_context(ctxs, pool) ==
    IF pool = <<>>
    THEN [r |-> Len(ctxs) + 1, pool |-> pool,
          ctxs |-> Append(ctxs, [NewTmpCtx EXCEPT !.local_instances = TRUE])]
    ELSE [r |-> pool[Len(pool)], pool |-> SubSeq(pool, 1, Len(pool) - 1),
          ctxs |-> [ctxs EXCEPT ![pool[Len(pool)]].local_instances = TRUE]]

\* blastenv::recycle_tmp_type_context: [pool, ctxs]
recycle_tmp_type_context(ctxs, pool, ctx) ==
    [pool |-> Append(pool, ctx),
     ctxs |-> [ctxs EXCEPT ![ctx] = tmp_ctx_clear(@)]]

TmpCall(op, ctx, created) ==
    [op |-> op, ctx |-> ctx, created |-> created, pool |-> m_tmp_ctx_pool]

PoolFrame ==
    UNCHANGED <<optionVars, m_curr_state, m_choice_points, searchVars,
                internVars, tctxVars, run_result, g_blastenv, scopes,
                num_engines, next_idx, owner, handed, last_dispatch,
                last_action>>

\* the constructor of blastenv: m_tmp_ctx(mk_tmp_type_context())
Pool_Construct ==
    /\ pc = "pool"
    /\ m_tmp_ctx = 0
    /\ \E r \in {mk_tmp_type_context(tmp_ctxs, m_tmp_ctx_pool)} :
          /\ m_tmp_ctx' = r.r
          /\ m_tmp_ctx_pool' = r.pool
          /\ tmp_ctxs' = r.ctxs
    /\ UNCHANGED <<tmp_guards, last_tmp>>
    /\ PoolFrame

\* blast_tmp_type_context(): guard g comes to life
Pool_Acquire(g) ==
    /\ pc = "pool"
    /\ m_tmp_ctx # 0
    /\ tmp_guards[g] = 0
    /\ \E r \in {mk_tmp_type_context(tmp_ctxs, m_tmp_ctx_pool)} :
          /\ tmp_guards' = [tmp_guards EXCEPT ![g] = r.r]
          /\ m_tmp_ctx_pool' = r.pool
          /\ tmp_ctxs' = r.ctxs
          /\ last_tmp' = TmpCall("acquire", r.r, m_tmp_ctx_pool = <<>>)
    /\ UNCHANGED m_tmp_ctx
    /\ PoolFrame

\* blast_tmp_type_context(num_umeta, num_emeta): clear, then the counters
Pool_AcquireWith(g, num_umeta, num_emeta) ==
    /\ pc = "pool"
    /\ m_tmp_ctx # 0
    /\ tmp_guards[g] = 0
    /\ \E r \in {mk_tmp_type_context(tmp_ctxs, m_tmp_ctx_pool)} :
          /\ tmp_guards' = [tmp_guards EXCEPT ![g] = r.r]
          /\ m_tmp_ctx_pool' = r.pool
          /\ tmp_ctxs' = [r.ctxs EXCEPT ![r.r] =
                            [tmp_ctx_clear(@) EXCEPT
                                !.next_uvar_idx = num_umeta,
                                !.next_mvar_idx = num_emeta]]
          /\ last_tmp' = TmpCall("acquire", r.r, m_tmp_ctx_pool = <<>>)
    /\ UNCHANGED m_tmp_ctx
    /\ PoolFrame

\* the holder of guard g, or the engine (g = 0), works with its context
Pool_Use(g) ==
    /\ pc = "pool"
    /\ m_tmp_ctx # 0
    /\ g # 0 => tmp_guards[g] # 0
    /\ \E c \in {IF g = 0 THEN m_tmp_ctx ELSE tmp_guards[g]} :
          /\ ~tmp_ctxs[c].used
          /\ tmp_ctxs' = [tmp_ctxs EXCEPT ![c].used = TRUE]
    /\ UNCHANGED <<m_tmp_ctx_pool, m_tmp_ctx, tmp_guards, last_tmp>>
    /\ PoolFrame

\* ~blast_tmp_type_context(): guard g is destroyed
Pool_Release(g) ==
    /\ pc = "pool"
    /\ tmp_guards[g] # 0
    /\ \E r \in {recycle_tmp_type_context(tmp_ctxs, m_tmp_ctx_pool,
                                          tmp_guards[g])} :
          /\ m_tmp_ctx_pool' = r.pool
          /\ tmp_ctxs' = r.ctxs
    /\ tmp_guards' = [tmp_guards EXCEPT ![g] = 0]
    /\ last_tmp' = TmpCall("release", tmp_guards[g], FALSE)
    /\ UNCHANGED m_tmp_ctx
    /\ PoolFrame

PoolInit == TctxStart("pool")

PoolNext ==
    \/ Pool_Construct
    \/ \E g \in TmpGuards : Pool_Acquire(g)
    \/ \E g \in TmpGuards : \E n \in {1} : Pool_AcquireWith(g, n, n)
    \/ \E g \in {0} \cup TmpGuards : Pool_Use(g)
    \/ \E g \in TmpGuards : Pool_Release(g)

PoolSpec == PoolInit /\ [][PoolNext]_vars

(***************************************************************************)
(* The whole run with the default options: blast_goal on a goal whose      *)
(* target is a chain of implications.                                      *)
(***************************************************************************)
LEAN_DEFAULT_BLAST_MAX_DEPTH == 128
LEAN_DEFAULT_BLAST_INIT_DEPTH == 1
LEAN_DEFAULT_BLAST_INC_DEPTH == 5

\* the propositions of the goals: the atoms and the metavariable ?m
RunTypes == Atoms \cup {mk_meta(1, <<>>)}
\* a proposition or a chain of one or two implications
RunTargets ==
    RunTypes \cup {mk_pi(a, b) : a \in RunTypes, b \in RunTypes}
             \cup {mk_pi(a, mk_pi(b, c)) :
                      a \in RunTypes, b \in RunTypes, c \in RunTypes}
RunHyps ==
    {<<>>} \cup {<<Hyp(1, t)>> : t \in RunTypes}
           \cup {<<Hyp(1, t), Hyp(2, u)>> : t \in RunTypes, u \in RunTypes}
RunGoals == {[hyps |-> hs, target |-> t] : hs \in RunHyps, t \in RunTargets}

RunInit ==
    /\ m_max_depth = LEAN_DEFAULT_BLAST_MAX_DEPTH
    /\ m_init_depth = LEAN_DEFAULT_BLAST_INIT_DEPTH
    /\ m_inc_depth = LEAN_DEFAULT_BLAST_INC_DEPTH
    /\ m_curr_state = EmptyState
    /\ m_choice_points = <<>>
    /\ pc = "init"
    /\ d = 0
    /\ s = EmptyState
    /\ result = NoneExpr
    /\ depths_tried = {}
    /\ goal \in RunGoals
    /\ error = ""
    /\ m_mvar2meta_mref = [m \in ExtMvars |-> NoMetaMref]
    /\ to_state_s = EmptyState
    /\ visit_log = <<>>
    /\ nonlocal_name_cmp = "differs"
    /\ TctxIdle
    /\ EngineIdle

RunNext ==
    \/ Run_InitState
    \/ Search_Begin
    \/ Search_While
    \/ SearchUpto_Step
    \/ Search_Advance
    \/ Run_Return

RunSpec == RunInit /\ [][RunNext]_vars /\ WF_vars(RunNext)

(***************************************************************************)
(* The claims about the externalizer and the whole run.                    *)
(***************************************************************************)
\* operator() returned the externalized proof
Returned == pc = "returned" /\ result # NoneExpr

C12_MrefsReplaced ==
    Returned => mrefs_of(run_result) = {}

\* a and b are the same term up to the names of the metavariables: the
\* same leaves and binders, and metavariables applied to the same arguments
RECURSIVE SameUpToMetaNames(_, _)
SameUpToMetaNames(a, b) ==
    IF is_meta(a) /\ is_meta(b)
    THEN /\ Len(a[3]) = Len(b[3])
         /\ \A k \in 1 .. Len(a[3]) : SameUpToMetaNames(a[3][k], b[3][k])
    ELSE IF a[1] = b[1] /\ a[1] \in {"app", "pi", "lam"}
    THEN SameUpToMetaNames(a[2], b[2]) /\ SameUpToMetaNames(a[3], b[3])
    ELSE a = b
\* the metavariable applications of e are applied to distinct local constants
RECURSIVE InPatternFragment(_)
InPatternFragment(e) ==
    CASE is_meta(e) ->
            /\ \A k \in 1 .. Len(e[3]) : is_local(e[3][k])
            /\ ~OutsidePattern(e[3])
      [] e[1] \in {"app", "pi", "lam"} ->
            InPatternFragment(e[2]) /\ InPatternFragment(e[3])
      [] OTHER -> TRUE

\* C13: a term of the supported fragment that is internalized and then
\* externalized, with no search step in between, comes back as the original
\* term up to the names of the metavariables.
C13_RoundTrip ==
    (pc = "search" /\ InPatternFragment(goal.target)) =>
        SameUpToMetaNames(goal.target,
                          to_tactic_proof(m_curr_state, m_curr_state.target))

\* the premises and the conclusion of a chain of implications
RECURSIVE Premises(_)
Premises(t) == IF is_pi(t) THEN <<t[2]>> \o Premises(t[3]) ELSE <<>>
RECURSIVE Conclusion(_)
Conclusion(t) == IF is_pi(t) THEN Conclusion(t[3]) ELSE t
\* the conclusion of the target is the type of a given hypothesis or one of
\* the premises
ProvableChain(g) ==
    \/ \E i \in 1 .. Len(g.hyps) : g.hyps[i].type = Conclusion(g.target)
    \/ \E i \in 1 .. Len(Premises(g.target)) :
          Premises(g.target)[i] = Conclusion(g.target)
\* the domains of the leading lambdas of pr, and what is under them
RECURSIVE Binders(_)
Binders(pr) == IF pr[1] = "lam" THEN <<pr[2]>> \o Binders(pr[3]) ELSE <<>>
RECURSIVE Body(_)
Body(pr) == IF pr[1] = "lam" THEN Body(pr[3]) ELSE pr
\* pr is an n-binder lambda over the premises of st0's target whose body is
\* a given hypothesis of the type concl or the binder of such a premise
ProvesChain(st0, pr) ==
    LET prem  == Premises(st0.target)
        concl == Conclusion(st0.target)
        n     == Len(prem)
        b     == Body(pr)
    IN /\ Binders(pr) = prem
       /\ \/ is_href(b) /\ b[2] \in 1 .. Len(st0.hyps)
                        /\ st0.hyps[b[2]].type = concl
          \/ b[1] = "var" /\ b[2] < n /\ prem[n - b[2]] = concl
\* while the search runs: no hypothesis is activated before the target has
\* been introduced, and a branch is closed only with every hypothesis active
IntroActivateAssume ==
    /\ (pc = "upto" /\ is_pi(m_curr_state.target)) =>
          \A i \in (Len(to_state_s.hyps) + 1) .. Len(m_curr_state.hyps) :
              ~m_curr_state.hyps[i].active
    /\ (pc = "done" /\ result # NoneExpr) =>
          /\ ~is_pi(to_state_s.target) \/ Len(m_curr_state.hyps) > Len(to_state_s.hyps)
          /\ Len(m_curr_state.hyps) =
                Len(to_state_s.hyps) + Len(Premises(to_state_s.target))
          /\ \A i \in 1 .. Len(m_curr_state.hyps) : m_curr_state.hyps[i].active
          /\ ~has_proof_steps(m_curr_state)
          /\ get_proof_depth(m_curr_state) = 0

C15_InnermostEngine ==
    pc = "engine" =>
        /\ \A t \in Threads : g_blastenv[t] = Innermost(t)
        /\ \A t \in Threads : \A i \in 1 .. Len(scopes[t]) :
              /\ owner[scopes[t][i].engine] = t
              /\ scopes[t][i].m_prev_blastenv =
                    IF i = 1 THEN 0 ELSE scopes[t][i - 1].engine
        /\ last_dispatch.thread # 0 =>
              /\ last_dispatch.engine = last_dispatch.innermost
              /\ owner[last_dispatch.engine] = last_dispatch.thread

\* thread 1 is back at its outer engine after a nested engine was
\* uninstalled, while thread 2 has an engine of its own, and calls a free
\* function
C15_Witness ==
    /\ pc = "engine"
    /\ num_engines = 3
    /\ Len(scopes[1]) = 1
    /\ Len(scopes[2]) = 1
    /\ g_blastenv[1] = 1
    /\ owner = <<1, 2, 1>>
    /\ last_dispatch = [thread |-> 1, engine |-> 1, innermost |-> 1]

\* C16: within the lifetime of an engine every index handed out is greater
\* than every index of the same kind handed out to it before, also when a
\* second engine is constructed and destroyed on the same thread meanwhile.
C16_IndicesIncrease ==
    pc = "engine" =>
        \A i \in 1 .. Len(handed) : \A j \in 1 .. Len(handed) :
            (i < j /\ handed[i].engine = handed[j].engine
                   /\ handed[i].kind = handed[j].kind)
                => handed[i].idx < handed[j].idx

(***************************************************************************)
(* Claims about the bounded search and next_action.                        *)
(***************************************************************************)
\* the depth bounds search_upto is compared at
DepthBounds == {0, 1, 2, 3, Modulus - 1}

\* the proof search_upto(depth) returns from st with no choice point
ProofUpto(st, depth) == search_upto(st, <<>>, depth).pr

\* C17: from the same seed State and no choice point, a bounded search that
\* returns a proof at depth d returns a proof at every depth d' >= d; the
\* bounded searches search() runs are these, so a search() that returns
\* none found no proof at any depth it tried, and a search() whose series
\* holds a depth that admits a proof returns a proof.
C17_DeepeningMonotonic ==
    /\ [](pc = "search" =>
            \A d1 \in DepthBounds : \A d2 \in DepthBounds :
                (d1 <= d2 /\ ProofUpto(m_curr_state, d1) # NoneExpr)
                    => ProofUpto(m_curr_state, d2) # NoneExpr)
    /\ [](pc = "failed" => ProofUpto(s, d) = NoneExpr)
    /\ [](ProofFound => ProofUpto(s, d) = result)
    /\ []((pc = "done" /\ result = NoneExpr) =>
            \A d1 \in depths_tried : ProofUpto(s, d1) = NoneExpr)
    /\ (pc = "search" /\ \E k \in 0 .. 2 :
            /\ m_init_depth + k * m_inc_depth <= m_max_depth
            /\ ProofUpto(m_curr_state, m_init_depth + k * m_inc_depth)
                   # NoneExpr)
          ~> ProofFound

\* the bounded searches at 0 and 1 failed and the one at 2 returned the
\* proof that every larger bound admits too
C17_Witness ==
    /\ ProofFound
    /\ depths_tried = {0, 1, 2}
    /\ ProofUpto(s, 1) = NoneExpr
    /\ ProofUpto(s, 3) = result
    /\ ProofUpto(s, Modulus - 1) = result

\* C18: every bounded search begins from the State s0 saved on entry with
\* no choice point; when search() returns none the State is s0 again and
\* there is no choice point; when a proof is found the State is the one in
\* which the last branch closed, after its proof steps were resolved, and
\* the term returned is externalized against that State.
C18_SearchFrame ==
    /\ pc \in {"while", "upto", "failed", "done", "returned"} => s = to_state_s
    /\ pc = "while" => (m_curr_state = s /\ m_choice_points = <<>>)
    /\ (pc \in {"done", "returned"} /\ result = NoneExpr) =>
          (m_curr_state = s /\ m_choice_points = <<>>)
    /\ (pc \in {"done", "returned"} /\ result # NoneExpr) =>
          /\ last_action.status = "ClosedBranch"
          /\ m_curr_state = resolve(last_action.state, last_action.pr).state
          /\ m_curr_state # s
    /\ (pc = "returned" /\ result # NoneExpr) =>
          run_result = to_tactic_proof(m_curr_state, result)

\* search() returned none after two bounded searches that had changed the
\* State
C18_Witness ==
    /\ pc = "done"
    /\ result = NoneExpr
    /\ Cardinality(depths_tried) = 2
    /\ last_action.status = "NoAction"
    /\ last_action.state # s
    /\ m_curr_state = s

NumActive(st) == Cardinality({i \in 1 .. Len(st.hyps) : st.hyps[i].active})

\* C20: a call of next_action introduces when introduction applies;
\* otherwise it activates a hypothesis when one can be activated; it tries
\* assumption and closes the branch only when neither applies, and reports
\* NoAction only when none of the three applies; at most one of them
\* changes the State.
C20_ActionPriority ==
    last_action.status # "none" =>
        LET on == last_action.on
            st == last_action.state
        IN /\ intros_applies(on) =>
                 /\ last_action.status = "Continue"
                 /\ st = intros_action(on)
                 /\ NumActive(st) = NumActive(on)
           /\ (~intros_applies(on) /\ activate_hypothesis_applies(on)) =>
                 /\ last_action.status = "Continue"
                 /\ st = state_activate_hypothesis(on)
                 /\ st.target = on.target
                 /\ st.proof_steps = on.proof_steps
           /\ last_action.status = "ClosedBranch" =>
                 /\ ~intros_applies(on)
                 /\ ~activate_hypothesis_applies(on)
                 /\ last_action.pr = assumption_action(on)
                 /\ last_action.pr # NoneExpr
                 /\ st = on
           /\ last_action.status = "NoAction" <=>
                 /\ ~intros_applies(on)
                 /\ ~activate_hypothesis_applies(on)
                 /\ assumption_action(on) = NoneExpr
           /\ last_action.status = "NoAction" => st = on

\* next_action activated a hypothesis in a State where an active
\* hypothesis already had the type of the target
C20_Witness ==
    /\ last_action.status = "Continue"
    /\ ~intros_applies(last_action.on)
    /\ activate_hypothesis_applies(last_action.on)
    /\ assumption_action(last_action.on) # NoneExpr

(***************************************************************************)
(* A bounded search in progress: search_upto(d) on a State that holds      *)
(* proof steps, some of which wait for more subgoals, with choice points   *)
(* saved earlier in the same bounded search.                               *)
(***************************************************************************)
\* number of proof steps on the stack of a State the search is resumed in
MaxSteps == 2
\* number of choice points the search is resumed with
MaxChoicePoints == 2

IntrosStep == [kind |-> "intros", href |-> 1]
PendingStep == [kind |-> "pending", href |-> 0]
StepStacks ==
    UNION {[1 .. n -> {IntrosStep, PendingStep}] : n \in 0 .. MaxSteps}

with_proof_steps(st, steps) ==
    [st EXCEPT !.proof_steps = steps, !.proof_depth = Len(steps)]

\* one hypothesis of type A, activated or not, and a target
BranchBases ==
    { [mk_hypothesis_in(EmptyState, mk_constant(1), 1)
           EXCEPT !.hyps[1].active = act, !.target = t] :
        act \in BOOLEAN,
        t \in {mk_constant(1), mk_constant(2),
               mk_pi(mk_constant(2), mk_constant(1))} }
BranchStates ==
    {with_proof_steps(b, steps) : b \in BranchBases, steps \in StepStacks}

\* snapshots taken in the bounded search: one that can be closed, one stuck
ChoiceStates ==
    { [mk_hypothesis_in(EmptyState, mk_constant(1), 1)
           EXCEPT !.hyps[1].active = TRUE, !.target = t] :
        t \in {mk_constant(1), mk_constant(2)} }
ChoiceStacks ==
    UNION {[1 .. n -> ChoiceStates] : n \in 0 .. MaxChoicePoints}

BranchInit ==
    /\ m_max_depth = MaxSteps
    /\ m_init_depth = 0
    /\ m_inc_depth = 1
    /\ m_curr_state \in BranchStates
    /\ m_choice_points \in ChoiceStacks
    /\ pc = "upto"
    /\ d \in 0 .. MaxSteps
    /\ s = EmptyState
    /\ result = NoneExpr
    /\ depths_tried = {d}
    /\ goal = [hyps |-> <<>>, target |-> NoneExpr]
    /\ error = ""
    /\ m_mvar2meta_mref = [m \in ExtMvars |-> NoMetaMref]
    /\ to_state_s = m_curr_state
    /\ visit_log = <<>>
    /\ nonlocal_name_cmp = "differs"
    /\ TctxIdle
    /\ EngineIdle

BranchNext ==
    \/ SearchUpto_Step
    \/ Run_Return

BranchSpec == BranchInit /\ [][BranchNext]_vars /\ WF_vars(BranchNext)

(***************************************************************************)
(* Claims about resolve and backtracking.                                  *)
(***************************************************************************)
\* the State st with its k topmost proof steps popped
RECURSIVE PopN(_, _)
PopN(st, k) == IF k = 0 THEN st ELSE PopN(pop_proof_step(st), k - 1)

\* the partial proof after the k topmost proof steps of st took pr in turn,
\* NoneExpr when one of them did not accept
RECURSIVE PartialProof(_, _, _)
PartialProof(st, pr, k) ==
    IF k = 0 THEN pr
    ELSE LET prev == PartialProof(st, pr, k - 1)
         IN IF prev = NoneExpr THEN NoneExpr
            ELSE proof_step_resolve(top_proof_step(PopN(st, k - 1)),
                                    PopN(st, k - 1), prev)

\* a branch was closed by the last call of next_action and resolve has run
BranchClosed == pc \in {"upto", "done"} /\ last_action.status = "ClosedBranch"

\* C21: resolve pops the proof steps that accept, from the top, each taking
\* the proof the step above returned; it returns a proof exactly when the
\* stack is empty afterwards, and that proof is the one the last step
\* returned; when it returns incomplete the top step left is one that did
\* not accept, and it and the steps below are as they were.
C21_ResolvePopsWhileAccepted ==
    BranchClosed =>
        LET before == last_action.state
            n == Len(before.proof_steps)
            m == Len(m_curr_state.proof_steps)
        IN /\ m <= n
           /\ m_curr_state = PopN(before, n - m)
           /\ m_curr_state.proof_steps = SubSeq(before.proof_steps, 1, m)
           /\ \A j \in 1 .. (n - m) :
                 PartialProof(before, last_action.pr, j) # NoneExpr
           /\ pc = "done" <=> m = 0
           /\ pc = "done" => result = PartialProof(before, last_action.pr, n)
           /\ pc = "upto" =>
                 PartialProof(before, last_action.pr, n - m + 1) = NoneExpr

\* the step on top accepted and was popped, the step below did not accept
\* and stays
C21_Witness ==
    /\ BranchClosed
    /\ pc = "upto"
    /\ last_action.state.proof_steps = <<PendingStep, IntrosStep>>
    /\ m_curr_state.proof_steps = <<PendingStep>>

\* C22: a proof is returned only in a State with no proof step left; a
\* ClosedBranch whose resolve is incomplete neither ends the bounded search
\* nor touches the choice points, its State passes the depth test, and the
\* next iteration calls next_action on that State.
C22_IncompleteGoesOn ==
    /\ []((pc \in {"done", "returned"} /\ result # NoneExpr)
             => m_curr_state.proof_steps = <<>>)
    /\ []((BranchClosed /\ pc = "upto")
             => (m_curr_state.proof_steps # <<>> /\ result = NoneExpr
                 /\ m_curr_state.proof_depth <= d))
    /\ [][(pc = "upto" /\ m_curr_state.proof_depth <= d
              /\ last_action'.status = "ClosedBranch" /\ pc' # "done")
             => (pc' = "upto" /\ m_choice_points' = m_choice_points)]_vars
    /\ [][(BranchClosed /\ pc = "upto")
             => (last_action'.on = m_curr_state /\ last_action'.bound = d
                 /\ pc' # "failed")]_vars

\* the bounded search was resumed with two proof steps; the branch closed,
\* resolve popped one and was incomplete, and next_action was called again
\* on the State resolve left
C22_Witness ==
    /\ BranchClosed
    /\ pc = "upto"
    /\ to_state_s.proof_steps = <<PendingStep, IntrosStep>>
    /\ last_action.on.proof_steps = <<PendingStep>>
    /\ last_action.on = m_curr_state
    /\ m_choice_points # <<>>

\* the last element of a non-empty sequence and the elements before it
Back(q) == q[Len(q)]
Older(q) == SubSeq(q, 1, Len(q) - 1)

\* C23: a backtrack makes the most recently pushed choice point the current
\* State and removes that one only, the older ones staying as they were and
\* in order; with no choice point it changes neither the State nor the
\* stack, and the bounded search ends with none.  An iteration of
\* search_upto backtracks when the depth is exceeded, after which it calls
\* next_action on the State restored, and when next_action reports NoAction.
C23_BacktrackPopsOne ==
    [][pc = "upto" =>
          LET over == m_curr_state.proof_depth > d
              cps  == m_choice_points
          IN IF over /\ cps = <<>>
             THEN /\ pc' = "failed"
                  /\ result' = NoneExpr
                  /\ m_curr_state' = m_curr_state
                  /\ m_choice_points' = <<>>
                  /\ last_action' = last_action
             ELSE LET left == IF over THEN Older(cps) ELSE cps
                  IN /\ last_action'.on = IF over THEN Back(cps)
                                                  ELSE m_curr_state
                     /\ last_action'.status # "NoAction" =>
                           m_choice_points' = left
                     /\ (last_action'.status = "NoAction" /\ left # <<>>) =>
                           /\ m_curr_state' = Back(left)
                           /\ m_choice_points' = Older(left)
                           /\ pc' = "upto"
                     /\ (last_action'.status = "NoAction" /\ left = <<>>) =>
                           /\ m_curr_state' = last_action'.on
                           /\ m_choice_points' = <<>>
                           /\ pc' = "failed"
                           /\ result' = NoneExpr]_vars

\* no action applied, and the newer of two choice points became the State
\* while the older one stays on the stack
C23_Witness ==
    /\ pc = "upto"
    /\ last_action.status = "NoAction"
    /\ last_action.on = to_state_s
    /\ Len(m_choice_points) = 1
    /\ m_curr_state \in ChoiceStates
    /\ m_curr_state # m_choice_points[1]
    /\ m_curr_state # last_action.state

(***************************************************************************)
(* Claims about the consistency of internalization.                        *)
(***************************************************************************)
\* the function at the head of an application
RECURSIVE HeadOf(_)
HeadOf(e) == IF e[1] = "app" THEN HeadOf(e[2]) ELSE e

\* the goal f t1 t2 was internalized without an exception and t1 and t2 are
\* metavariable applications
TwoOccurrences ==
    /\ pc # "init"
    /\ error = ""
    /\ goal \in PatternGoals
    /\ is_meta(goal.target[2][3])
    /\ is_meta(goal.target[3])

\* C24: the occurrences of one external metavariable are rewritten to
\* applications of one mref, those of distinct metavariables to distinct
\* mrefs, and two occurrences of a metavariable with the same argument list
\* are rewritten to the same mref application.
C24_OccurrencesConsistent ==
    TwoOccurrences =>
        LET t1 == goal.target[2][3]
            t2 == goal.target[3]
            r1 == to_state_s.target[2][3]
            r2 == to_state_s.target[3]
        IN /\ is_mref(HeadOf(r1))
           /\ is_mref(HeadOf(r2))
           /\ (t1[2] = t2[2]) <=> (HeadOf(r1) = HeadOf(r2))
           /\ t1 = t2 => r1 = r2

(***************************************************************************)
(* Claims about a rejected assignment.                                     *)
(***************************************************************************)
\* C25: after a validate_assignment that returned false the State is the
\* one before the call: nothing was assigned and no admissible context was
\* narrowed.
C25_RejectedLeavesState ==
    (last_call.op = "validate" /\ ~last_call.ok) =>
        m_curr_state = last_call.before

(***************************************************************************)
(* Claims about the pool of scratch type-contexts.                         *)
(***************************************************************************)
\* the elements of a sequence
Range(q) == {q[i] : i \in 1 .. Len(q)}
\* the contexts held by live guards
HeldCtxs == {tmp_guards[g] : g \in {h \in TmpGuards : tmp_guards[h] # 0}}

\* C26: no scratch context is held by two live guards, none is on the
\* free-list while a guard holds it, and the engine's own context is held
\* by no guard and is not on the free-list; a release clears the context
\* and puts it on top of the free-list; an acquisition creates a context
\* only when the free-list is empty and takes the one on top otherwise.
C26_PoolDiscipline ==
    pc = "pool" =>
        /\ \A g \in TmpGuards : \A h \in TmpGuards :
              (g # h /\ tmp_guards[g] # 0) => tmp_guards[g] # tmp_guards[h]
        /\ HeldCtxs \cap Range(m_tmp_ctx_pool) = {}
        /\ Cardinality(Range(m_tmp_ctx_pool)) = Len(m_tmp_ctx_pool)
        /\ m_tmp_ctx # 0 =>
              m_tmp_ctx \notin HeldCtxs \cup Range(m_tmp_ctx_pool)
        /\ HeldCtxs \cup Range(m_tmp_ctx_pool) \subseteq 1 .. Len(tmp_ctxs)
        /\ \A c \in Range(m_tmp_ctx_pool) : tmp_ctxs[c] = tmp_ctx_clear(tmp_ctxs[c])
        /\ last_tmp.op = "release" =>
              /\ m_tmp_ctx_pool # <<>>
              /\ ~tmp_ctxs[last_tmp.ctx].used
              /\ m_tmp_ctx_pool = Append(last_tmp.pool, last_tmp.ctx)
        /\ last_tmp.op = "acquire" =>
              /\ last_tmp.created <=> last_tmp.pool = <<>>
              /\ last_tmp.created => last_tmp.ctx = Len(tmp_ctxs)
              /\ ~last_tmp.created =>
                    /\ last_tmp.ctx = last_tmp.pool[Len(last_tmp.pool)]
                    /\ m_tmp_ctx_pool =
                          SubSeq(last_tmp.pool, 1, Len(last_tmp.pool) - 1)
              /\ last_tmp.ctx \in HeldCtxs

\* two contexts were released and a third guard is alive; the acquisition
\* took the one released last and left the other on the free-list
C26_Witness ==
    /\ pc = "pool"
    /\ last_tmp.op = "acquire"
    /\ Len(last_tmp.pool) = 2
    /\ ~last_tmp.created
    /\ Len(m_tmp_ctx_pool) = 1
    /\ Cardinality(HeldCtxs) = 2
    /\ Len(tmp_ctxs) = 4

=============================================================================
